---- MODULE Spec2Model ----
(***************************************************************************)
(* Model of indiekit-endpoint-lastfm: the background sync engine           *)
(* (lib/sync.js), the Last.fm client's pagination (lib/lastfm-client.js),  *)
(* the stats snapshot (lib/stats.js), the in-memory stats cache and the    *)
(* stats read path (lib/controllers/stats.js).                             *)
(*                                                                         *)
(* JavaScript runs one continuation at a time: every action below is the   *)
(* completion of one awaited operation together with the synchronous code  *)
(* that follows it up to the next await.                                   *)
(***************************************************************************)
EXTENDS Integers, Sequences, FiniteSets, TLC

\* ------------------------------------------------------------------ bounds
MaxCycles == 2      \* runSync invocations that can be in flight together
MaxUp == 3          \* plays the upstream account ever holds
PageSize == 1       \* items per page (the code asks for 200)
MaxClock == 3       \* clock steps the process lives through
BackfillExtra == 2  \* pages of history beyond the backfill cap
MaxImages == 3      \* image variants of a track
MaxRows == 2        \* rows of the store a summary is computed over

\* ------------------------------------------------------- program constants
BackfillMaxPages == 10     \* sync.js: client.getAllRecentTracks(10)
STATS_CACHE_TTL == 300000  \* sync.js: const STATS_CACHE_TTL = 300_000
DefaultCacheTtl == 900000  \* lastfm-client.js: options.cacheTtl || 900_000
DefaultScrobblesLimit == 20 \* index.js defaults.limits.scrobbles
DefaultDays == 30          \* apiTrends: parseInt(request.query.days) || 30
MaxDays == 90              \* apiTrends: Math.min(days, 90)
MaxLimit == 200            \* Math.min(limit, 200)
NowPlayingMins == 60       \* getPlayingStatus: diffMins < 60
RecentMins == 24 * 60      \* getPlayingStatus: diffMins < 24 * 60
WeekDays == 7              \* getDateMatch: now - 7 * 24 * 60 * 60 * 1000
MonthDays == 30            \* getDateMatch: now - 30 * 24 * 60 * 60 * 1000

Cycles == 1..MaxCycles

VARIABLES
  upN,            \* upstream: number of completed plays of the account
  fromInclusive,  \* upstream: whether "from" also returns plays at that second
  database,       \* Indiekit.database is set
  options,        \* plugin options (process defaults): apiKey, username
  settings,       \* lastfmMeta document {key: "settings"}
  scrobbles,      \* the scrobbles collection
  syncInterval,   \* sync.js: let syncInterval (TRUE = holds a timer handle)
  intervals,      \* live setInterval timers
  timeouts,       \* pending setTimeout callbacks of startSync
  started,        \* init() has called startSync
  cachedStats,    \* sync.js: let cachedStats
  cachedStatsTime,\* sync.js: let cachedStatsTime (0 = null)
  now,            \* Date.now()
  cache,          \* lastfm-client.js: this.cache of one LastFmClient
  lastCall,       \* outcome of the last LastFmClient.fetch call
  scrobblesResp,  \* last response of scrobblesController.api
  input,          \* arguments and environment of a function under study
  output,         \* what that function returned
  refresh,        \* the refreshStatsCache call of a dashboard request
  cyc,            \* the runSync invocations: position and locals
  statsResp,      \* last response of statsController.api
  gh,             \* per-invocation history (not program state)
  delivered,      \* history: triples handed to an upsert the store served
  hist            \* history: trigger of the run in flight, previous run

vars == <<upN, fromInclusive, database, options, settings, scrobbles,
          syncInterval, intervals, timeouts, started, cachedStats,
          cachedStatsTime, now, cache, lastCall, scrobblesResp, input,
          output, refresh, cyc, statsResp, gh, delivered, hist>>

envVars == <<upN, fromInclusive, database, options>>
timerVars == <<syncInterval, intervals, timeouts, started>>
slotVars == <<cachedStats, cachedStatsTime>>
callVars == <<input, output>>
clientVars == <<now, cache, lastCall, scrobblesResp, callVars, refresh>>

\* ------------------------------------------------------------- upstream
\* The i-th play of the account, in the order the plays happened.  Two plays
\* share each second; their artist and track names contain ':'.  Item 0 is
\* the track being played now: it carries @attr.nowplaying and no date.
ArtistOf(i) == IF i % 2 = 1 THEN <<"a", ":", "b">> ELSE <<"a">>
TrackOf(i) == IF i % 2 = 1 THEN <<"c">> ELSE <<"b", ":", "c">>
UtsOf(i) == (i + 1) \div 2

\* user.getRecentTracks lists the plays newest first.
Recent(n) == [k \in 1..n |-> n - k + 1]

Min(a, b) == IF a < b THEN a ELSE b

\* Plays the upstream returns for a request: all of them when no "from" is
\* sent (getRecentTracks: if (from) params.from = from), else those after it.
Matching(n, from, incl) ==
  SelectSeq(Recent(n), LAMBDA i :
     \/ from = 0
     \/ IF incl THEN UtsOf(i) >= from ELSE UtsOf(i) > from)

\* response.recenttracks.track of page p
PageTracks(all, p, limit) ==
  SubSeq(all, (p - 1) * limit + 1, Min(p * limit, Len(all)))

\* parseInt(response.recenttracks["@attr"].totalPages) || 1
TotalPages(all, limit) ==
  LET t == (Len(all) + limit - 1) \div limit IN IF t = 0 THEN 1 ELSE t

\* ------------------------------------------------------------- documents
\* utils.parseDate: new Date(parseInt(uts) * 1000), as milliseconds; without
\* a date it is new Date(), the present, later than every completed play
parseDate(i) == IF i = 0 THEN (UtsOf(MaxUp) + 1) * 1000 ELSE UtsOf(i) * 1000

\* sync.js transformScrobble
transformScrobble(i) ==
  [ lastfmId    |-> ArtistOf(i) \o <<":">> \o TrackOf(i) \o <<":">>
                      \o <<ToString(parseDate(i))>>,
    trackTitle  |-> TrackOf(i),
    artistName  |-> ArtistOf(i),
    scrobbledAt |-> parseDate(i) ]

Triple(d) == <<d.artistName, d.trackTitle, d.scrobbledAt>>

Max(S) == CHOOSE x \in S : \A y \in S : y <= x

\* (faulty variant) the latest row is not looked up
LatestDateNone(rows) == 0

\* collection.findOne({}, {sort: {scrobbledAt: -1}})?.scrobbledAt || new Date(0)
LatestDate(rows) ==
  IF rows = {} THEN 0 ELSE Max({r.scrobbledAt : r \in rows})

\* collection.updateOne(filter on the triple, {$set: doc}, {upsert: true})
\* under the unique indexes on lastfmId and on the triple.
\* Outcome "updated" (a row matched), "inserted", or "E11000".
UpsertOutcome(rows, doc) ==
  IF \E r \in rows : Triple(r) = Triple(doc) THEN "updated"
  ELSE IF \E r \in rows : r.lastfmId = doc.lastfmId THEN "E11000"
  ELSE "inserted"

\* (faulty variant) the document replaces the row holding its lastfmId
UpsertRowsById(rows, doc) ==
  {r \in rows : r.lastfmId # doc.lastfmId} \cup {doc}

\* the collection after the updateOne
UpsertRows(rows, doc) ==
  IF UpsertOutcome(rows, doc) = "inserted" THEN rows \cup {doc}
  ELSE IF UpsertOutcome(rows, doc) = "updated"
       THEN {r \in rows : Triple(r) # Triple(doc)} \cup {doc}
       ELSE rows

\* ----------------------------------------------------------------- stats
NoStats == [set |-> FALSE, totalPlays |-> 0]

\* stats.js getSummary(db, "all").totalPlays inside getAllStats
getAllStats(rows) == [set |-> TRUE, totalPlays |-> Cardinality(rows)]

\* (faulty variant) a snapshot older than STATS_CACHE_TTL is not returned
getCachedStatsFresh ==
  IF ~cachedStats.set THEN NoStats
  ELSE IF cachedStatsTime # 0 /\ now - cachedStatsTime > STATS_CACHE_TTL
       THEN NoStats
       ELSE cachedStats

\* sync.js getCachedStats: the slot, also when older than STATS_CACHE_TTL
getCachedStats ==
  IF ~cachedStats.set THEN NoStats
  ELSE IF cachedStatsTime # 0 /\ now - cachedStatsTime > STATS_CACHE_TTL
       THEN cachedStats
       ELSE cachedStats

\* ---------------------------------------------------------------- config
NoSettings == [present |-> FALSE, apiKey |-> "", username |-> ""]

Or(a, b) == IF a # "" THEN a ELSE b

\* (faulty variant) a stored document replaces the defaults as a whole
getEffectiveSyncOptionsStoredOnly(doc, readOk, opt) ==
  IF readOk /\ doc.present
  THEN [apiKey |-> doc.apiKey, username |-> doc.username]
  ELSE opt

\* sync.js getEffectiveSyncOptions(db, options); readOk = findOne resolved
getEffectiveSyncOptions(doc, readOk, opt) ==
  IF readOk /\ doc.present
  THEN [apiKey |-> Or(doc.apiKey, opt.apiKey),
        username |-> Or(doc.username, opt.username)]
  ELSE opt

\* (faulty variant) the stored fields are used only when both are given
getEffectiveConfigBoth(doc, readOk, opt) ==
  IF readOk /\ doc.present /\ doc.apiKey # "" /\ doc.username # ""
  THEN [apiKey |-> doc.apiKey, username |-> doc.username]
  ELSE opt

\* config.js getEffectiveConfig(db, lastfmConfig), db being set
getEffectiveConfig(doc, readOk, opt) ==
  [apiKey |-> IF readOk /\ doc.present /\ doc.apiKey # ""
              THEN doc.apiKey ELSE opt.apiKey,
   username |-> IF readOk /\ doc.present /\ doc.username # ""
                THEN doc.username ELSE opt.username]

\* ------------------------------------------------- runSync invocations
NoResult == [synced |-> 0, error |-> ""]

\* Locals are reset when they go out of scope.
IdleCycle ==
  [ pc |-> "idle", apiKey |-> "", username |-> "",
    latestDate |-> 0, page |-> 0, pending |-> {}, batch |-> <<>>, idx |-> 0,
    synced |-> 0, result |-> NoResult, snap |-> NoStats ]

IdleGh ==
  [ inserted |-> 0, stats |-> "none", failedPage |-> 0, faulted |-> FALSE ]

NoHist ==
  [ kind |-> "none", second |-> FALSE, changed |-> FALSE, prev |-> "none",
    written |-> NoStats, writtenAt |-> 0, read |-> "none",
    marker |-> FALSE, markerNew |-> FALSE, startRows |-> {},
    wrote |-> FALSE, wroteBefore |-> FALSE ]

\* between the start of runSync and its completion
InProgress(c) ==
  cyc[c].pc \in {"cfg", "latest", "fetch", "upsert", "stats1", "stats2"}

\* runSync has settled, its caller has not yet continued
Ended(c) == cyc[c].pc \in {"returned", "rejected"}

FreeSlot(c) ==
  /\ cyc[c].pc = "idle"
  /\ \A d \in Cycles : d < c => cyc[d].pc # "idle"

NoResponse ==
  [ status |-> 0, source |-> "none", db |-> FALSE, slot |-> FALSE,
    retryAfter |-> FALSE ]

\* ------------------------------------------------------- remote client
\* The clock advances in steps of half the client's default TTL.
ClockStep == DefaultCacheTtl \div 2

\* cacheKey = url.toString(): the calls differ in their page parameter
Keys == {1, 2}

NoEntry == [has |-> FALSE, data |-> 0, timestamp |-> 0]

NoError == [class |-> "none", status |-> 0]

NoCall == [key |-> 0, network |-> FALSE, result |-> "none", data |-> 0,
           error |-> NoError]

\* What the upstream answers to one request: status 0 = the transport
\* failed, json = content-type is application/json, apiError = data.error.
Responses ==
  {[status |-> 0, json |-> FALSE, apiError |-> 0]}
    \cup {[status |-> st, json |-> FALSE, apiError |-> 0] : st \in {200, 429, 503}}
    \cup {[status |-> st, json |-> TRUE, apiError |-> e] :
             st \in {200, 429, 503}, e \in {0, 29}}

\* response.ok
ResponseOk(resp) == resp.status >= 200 /\ resp.status <= 299

\* LastFmClient.fetch after the cache lookup: what the call throws, or
\* class "none" when it returns data
FetchOutcome(resp) ==
  IF resp.status = 0 THEN [class |-> "TypeError", status |-> 0]
  ELSE IF ~ResponseOk(resp)
       THEN [class |-> "IndiekitError", status |-> resp.status]
       ELSE IF ~resp.json THEN [class |-> "Error", status |-> 0]
            ELSE IF resp.apiError # 0 THEN [class |-> "Error", status |-> 0]
                 ELSE NoError

NoApiResponse ==
  [ status |-> 0, retryable |-> FALSE, retryAfter |-> FALSE,
    upstream |-> 0, json |-> FALSE, code |-> 0, error |-> "none", page |-> 0,
    hasNext |-> FALSE,
    hasPrev |-> FALSE, count |-> 0 ]

NoCreds == [apiKey |-> "", username |-> ""]
EnvCreds == [apiKey |-> "K0", username |-> "U0"]

NoInput == [fn |-> "none"]
NoOutput == [fn |-> "none"]

\* no dashboard request is at its stats step; result NoStats = null
NoRefresh == [pc |-> "idle", snap |-> NoStats, result |-> NoStats]

\* the module state, the store and the histories after construction
InitState ==
  /\ settings = NoSettings
  /\ scrobbles = {}
  /\ syncInterval = FALSE
  /\ intervals = 0
  /\ timeouts = 0
  /\ started = FALSE
  /\ cachedStats = NoStats
  /\ cachedStatsTime = 0
  /\ now = 0
  /\ cache = [k \in Keys |-> NoEntry]
  /\ lastCall = NoCall
  /\ scrobblesResp = NoApiResponse
  /\ refresh = NoRefresh
  /\ cyc = [c \in Cycles |-> IdleCycle]
  /\ statsResp = NoResponse
  /\ gh = [c \in Cycles |-> IdleGh]
  /\ delivered = {}
  /\ hist = NoHist

\* the process after construction, whatever its environment
InitProcess ==
  /\ input = NoInput
  /\ output = NoOutput
  /\ InitState

Init ==
  /\ upN = 0
  /\ fromInclusive \in BOOLEAN
  /\ database \in BOOLEAN
  /\ options \in {NoCreds, EnvCreds}
  /\ InitProcess

\* runSync(Indiekit, options) up to its first await
runSync(c, opt) ==
  /\ cyc' = [cyc EXCEPT ![c] =
       IF database
       THEN [IdleCycle EXCEPT !.pc = "cfg",
                              !.apiKey = opt.apiKey, !.username = opt.username]
       ELSE [IdleCycle EXCEPT !.pc = "returned",
                !.result = [synced |-> 0, error |-> "No database"]]]
  /\ gh' = [gh EXCEPT ![c] = IdleGh]

\* index.js init() -> sync.js startSync
StartSync ==
  /\ ~started
  /\ started' = TRUE
  /\ timeouts' = timeouts + 1
  /\ intervals' = intervals + 1
  /\ syncInterval' = TRUE
  /\ UNCHANGED <<envVars, settings, scrobbles, slotVars, cyc, statsResp,
                 gh, delivered>>

\* sync.js stopSync
StopSync ==
  /\ syncInterval
  /\ intervals' = intervals - 1
  /\ syncInterval' = FALSE
  /\ UNCHANGED <<envVars, settings, scrobbles, slotVars, cyc, statsResp,
                 gh, delivered, timeouts, started>>

\* the setTimeout callback of startSync
InitialRun(c) ==
  /\ timeouts > 0
  /\ FreeSlot(c)
  /\ timeouts' = timeouts - 1
  /\ runSync(c, options)
  /\ UNCHANGED <<envVars, settings, scrobbles, slotVars, statsResp,
                 delivered, syncInterval, intervals, started>>

\* the setInterval callback of startSync
Tick(c) ==
  /\ intervals > 0
  /\ FreeSlot(c)
  /\ runSync(c, options)
  /\ UNCHANGED <<envVars, settings, scrobbles, slotVars, statsResp,
                 delivered, timerVars>>

\* dashboardController.sync up to await getEffectiveConfig; without a
\* database handle it answers 500 and changes nothing
ManualSync(c) ==
  /\ database
  /\ FreeSlot(c)
  /\ cyc' = [cyc EXCEPT ![c] = [IdleCycle EXCEPT !.pc = "mcfg"]]
  /\ UNCHANGED <<envVars, settings, scrobbles, slotVars, statsResp, gh,
                 delivered, timerVars>>

\* dashboardController.sync: config resolved, syncOptions built, runSync called
ManualConfigWith(c, readOk) ==
  /\ cyc[c].pc = "mcfg"
  /\ runSync(c, getEffectiveConfig(settings, readOk, options))
  /\ UNCHANGED <<envVars, settings, scrobbles, slotVars, statsResp,
                 delivered, timerVars>>

ManualConfig(c) == \E readOk \in BOOLEAN : ManualConfigWith(c, readOk)

\* (faulty variant) the cycle is skipped only when both credentials lack
UnconfiguredBoth(eff) == eff.apiKey = "" /\ eff.username = ""

\* runSync: !effectiveOptions.apiKey || !effectiveOptions.username
Unconfigured(eff) == eff.apiKey = "" \/ eff.username = ""

\* runSync: effective options resolved, credentials checked, client built,
\* syncScrobbles entered
ResolveConfigWith(c, readOk) ==
  /\ cyc[c].pc = "cfg"
  /\ LET eff == getEffectiveSyncOptions(settings, readOk,
                   [apiKey |-> cyc[c].apiKey, username |-> cyc[c].username])
     IN cyc' = [cyc EXCEPT ![c] =
          IF Unconfigured(eff)
          THEN [IdleCycle EXCEPT !.pc = "returned",
                   !.result = [synced |-> 0, error |-> "Not configured"]]
          ELSE [IdleCycle EXCEPT !.pc = "latest",
                   !.apiKey = eff.apiKey, !.username = eff.username]]
  /\ UNCHANGED <<envVars, settings, scrobbles, slotVars, statsResp, gh,
                 delivered, timerVars>>

ResolveConfig(c) == \E readOk \in BOOLEAN : ResolveConfigWith(c, readOk)

\* syncScrobbles: the five createIndex calls and the findOne of the latest
\* row; either may reject, which rejects runSync
ReadWatermark(c) ==
  /\ cyc[c].pc = "latest"
  /\ \E out \in {"ok", "createIndex", "findOne"} :
       IF out = "ok"
       THEN /\ cyc' = [cyc EXCEPT ![c].pc = "fetch", ![c].page = 1,
                                  ![c].pending = {1},
                                  ![c].latestDate = LatestDate(scrobbles)]
            /\ gh' = gh
       ELSE /\ cyc' = [cyc EXCEPT ![c] = [IdleCycle EXCEPT !.pc = "rejected"]]
            /\ gh' = [gh EXCEPT ![c].faulted = TRUE]
  /\ UNCHANGED <<envVars, settings, scrobbles, slotVars, statsResp,
                 delivered, timerVars>>

\* (faulty variant) the loop ignores maxPages
getAllRecentTracksMoreNoCap(p, total, maxPages) == p < total

\* lastfm-client.js getAllRecentTracks: while (hasMore && page <= maxPages)
getAllRecentTracksMore(p, total, maxPages) == p < total /\ p + 1 <= maxPages

\* lastfm-client.js getNewScrobbles: while (hasMore)
getNewScrobblesMore(p, total) == p < total

\* (faulty variant) the now-playing entry is kept
scrobbledTracksAll(tracks) == tracks

\* tracks.filter((t) => !t["@attr"]?.nowplaying)
scrobbledTracks(tracks) == SelectSeq(tracks, LAMBDA i : i # 0)

\* (faulty variant) the incremental request carries no lower time bound
FromNone(latestDate) == 0

\* the "from" parameter of a page request: none on the backfill path
\* (getAllRecentTracks), Math.floor(since.getTime() / 1000) on the
\* incremental path (getNewScrobbles)
FromOf(latestDate) == IF latestDate = 0 THEN 0 ELSE latestDate \div 1000

\* response.recenttracks.track of page p of the request of invocation c; np =
\* the account is playing a track when the request is served
PageResponse(c, np) ==
  (IF np THEN <<0>> ELSE <<>>)
    \o PageTracks(Matching(upN, FromOf(cyc[c].latestDate), fromInclusive),
                  cyc[c].page, PageSize)

\* (faulty variant) the loop requests the page after the next ahead of time
NextRequestsAhead(p) == {p + 1, p + 2}

\* the page requests the loop issues once the response for page p is in:
\* page++, then await this.getRecentTracks(page, ...)
NextRequests(p) == {p + 1}

\* (faulty variant) a failed page request ends the loop and the pages
\* collected so far are returned
AfterFailedPageKeep(batch) ==
  IF Len(batch) = 0
  THEN [IdleCycle EXCEPT !.pc = "stats1", !.result = NoResult]
  ELSE [IdleCycle EXCEPT !.pc = "upsert", !.batch = batch, !.idx = 1]

\* the error of a page request leaves the loop, getAllRecentTracks /
\* getNewScrobbles, syncScrobbles and runSync: nothing catches it, the
\* pages collected so far are dropped
AfterFailedPage(batch) == [IdleCycle EXCEPT !.pc = "rejected"]

\* one page request of the fetch loop settles; pending = the pages requested
\* and not yet answered
FetchPageWith(c, ok, np) ==
  /\ cyc[c].pc = "fetch"
  /\ cyc[c].page \in cyc[c].pending
  /\ LET backfill == cyc[c].latestDate = 0
         all == Matching(upN, FromOf(cyc[c].latestDate), fromInclusive)
         p == cyc[c].page
         newBatch == cyc[c].batch \o scrobbledTracks(PageResponse(c, np))
         total == TotalPages(all, PageSize)
         more == IF backfill
                 THEN getAllRecentTracksMore(p, total, BackfillMaxPages)
                 ELSE getNewScrobblesMore(p, total)
     IN IF ~ok
        THEN /\ cyc' = [cyc EXCEPT ![c] = AfterFailedPage(cyc[c].batch)]
             /\ gh' = [gh EXCEPT ![c].faulted = TRUE, ![c].failedPage = p]
        ELSE /\ gh' = gh
             /\ cyc' = [cyc EXCEPT ![c] =
                  IF more
                  THEN [@ EXCEPT !.batch = newBatch, !.page = p + 1,
                                 !.pending = (@ \ {p}) \cup NextRequests(p)]
                  ELSE IF Len(newBatch) = 0
                  THEN [IdleCycle EXCEPT !.pc = "stats1",
                                         !.result = NoResult]
                  ELSE [IdleCycle EXCEPT !.pc = "upsert",
                                         !.batch = newBatch, !.idx = 1]]
  /\ UNCHANGED <<envVars, settings, scrobbles, slotVars, statsResp,
                 delivered, timerVars>>

FetchPage(c) == \E ok \in BOOLEAN, np \in BOOLEAN : FetchPageWith(c, ok, np)

\* (faulty variant) the swallowed duplicate-key error counts as written
CountedAlways(n, err, out) == IF ~err THEN n + 1 ELSE n

\* syncScrobbles: synced++ after an updateOne that did not throw
Counted(n, err, out) == IF ~err /\ out # "E11000" THEN n + 1 ELSE n

\* syncScrobbles: one updateOne of the upsert loop settles; err = the store
\* failed with an error other than a duplicate key
UpsertWith(c, err) ==
  /\ cyc[c].pc = "upsert"
  /\ LET doc == transformScrobble(cyc[c].batch[cyc[c].idx])
         out == UpsertOutcome(scrobbles, doc)
         n == Counted(cyc[c].synced, err, out)
         last == cyc[c].idx = Len(cyc[c].batch)
     IN /\ scrobbles' = IF err THEN scrobbles ELSE UpsertRows(scrobbles, doc)
        /\ delivered' = IF err THEN delivered
                        ELSE delivered \cup {Triple(doc)}
        /\ cyc' = [cyc EXCEPT ![c] =
             IF last
             THEN [IdleCycle EXCEPT !.pc = "stats1",
                            !.result = [synced |-> n, error |-> ""]]
             ELSE [@ EXCEPT !.synced = n, !.idx = @ + 1]]
        /\ gh' = [gh EXCEPT ![c] =
             IF err THEN [@ EXCEPT !.faulted = TRUE]
             ELSE IF out = "inserted" THEN [@ EXCEPT !.inserted = @ + 1]
             ELSE @]
  /\ UNCHANGED <<envVars, settings, slotVars, statsResp, timerVars>>

Upsert(c) == \E err \in BOOLEAN : UpsertWith(c, err)

\* runSync: the store aggregations of getAllStats settle; a failure is
\* caught by runSync, which then returns the result
ComputeStats(c) ==
  /\ cyc[c].pc = "stats1"
  /\ \E ok \in BOOLEAN :
       IF ok
       THEN /\ cyc' = [cyc EXCEPT ![c].pc = "stats2",
                                  ![c].snap = getAllStats(scrobbles)]
            /\ gh' = gh
       ELSE /\ cyc' = [cyc EXCEPT ![c].pc = "returned"]
            /\ gh' = [gh EXCEPT ![c].stats = "failed"]
  /\ UNCHANGED <<envVars, settings, scrobbles, slotVars, statsResp,
                 delivered, timerVars>>

\* (faulty variant) the snapshot is replaced without its time
setCachedStatsOnly(stats) == cachedStats' = stats /\ UNCHANGED cachedStatsTime

\* sync.js setCachedStats
setCachedStats(stats) == cachedStats' = stats /\ cachedStatsTime' = now

\* runSync: the top lists of getAllStats settle, the cache is replaced and
\* runSync returns; a failure of the store fallback is caught
UpdateCacheWith(c, ok) ==
  /\ cyc[c].pc = "stats2"
  /\ IF ok
     THEN /\ setCachedStats(cyc[c].snap)
          /\ gh' = [gh EXCEPT ![c].stats = "replaced"]
     ELSE /\ UNCHANGED slotVars
          /\ gh' = [gh EXCEPT ![c].stats = "failed"]
  /\ cyc' = [cyc EXCEPT ![c].pc = "returned", ![c].snap = NoStats]
  /\ UNCHANGED <<envVars, settings, scrobbles, statsResp, delivered,
                 timerVars>>

UpdateCache(c) == \E ok \in BOOLEAN : UpdateCacheWith(c, ok)

\* what a refresh step leaves alone besides the slot
refreshFrame ==
  <<envVars, settings, scrobbles, cyc, statsResp, gh, delivered, timerVars,
    now, cache, lastCall, scrobblesResp, callVars>>

\* sync.js refreshStatsCache(db, limits, client) up to its first await:
\* if (!db) return null
refreshStatsCache(db) ==
  refresh' = IF db THEN [NoRefresh EXCEPT !.pc = "summaries"]
             ELSE [NoRefresh EXCEPT !.pc = "returned"]

\* dashboardController.get from "Get stats from cache" on: the slot is read
\* and, when it is empty and the handler has a store handle, refreshed;
\* hasGetter = the application has getLastfmDb
DashboardStats(hasGetter) ==
  /\ refresh.pc = "idle"
  /\ IF ~getCachedStats.set /\ hasGetter /\ database
     THEN refreshStatsCache(TRUE)
     ELSE refresh' = [NoRefresh EXCEPT !.pc = "rendered",
                                       !.result = getCachedStats]
  /\ UNCHANGED <<refreshFrame, slotVars>>

\* refreshStatsCache called by a caller holding the store handle or none
RefreshCall(db) ==
  /\ refresh.pc = "idle"
  /\ db => database
  /\ refreshStatsCache(db)
  /\ UNCHANGED <<refreshFrame, slotVars>>

\* (faulty variant) a failed computation empties the slot
RefreshFailedClears == cachedStats' = NoStats /\ cachedStatsTime' = 0

\* refreshStatsCache (catch): console.error, return null
RefreshFailed == UNCHANGED slotVars

\* refreshStatsCache: the store aggregations of getAllStats settle; a
\* failure is caught and null returned
RefreshSummaries(ok) ==
  /\ refresh.pc = "summaries"
  /\ IF ok
     THEN /\ refresh' = [refresh EXCEPT !.pc = "top",
                                        !.snap = getAllStats(scrobbles)]
          /\ UNCHANGED slotVars
     ELSE /\ RefreshFailed
          /\ refresh' = [NoRefresh EXCEPT !.pc = "returned"]
  /\ UNCHANGED refreshFrame

\* refreshStatsCache: the top lists of getAllStats settle, the slot is
\* replaced and the snapshot returned; a failure is caught and null returned
RefreshTop(ok) ==
  /\ refresh.pc = "top"
  /\ IF ok
     THEN /\ setCachedStats(refresh.snap)
          /\ refresh' = [NoRefresh EXCEPT !.pc = "returned",
                                          !.result = refresh.snap]
     ELSE /\ RefreshFailed
          /\ refresh' = [NoRefresh EXCEPT !.pc = "returned"]
  /\ UNCHANGED refreshFrame

\* the caller of refreshStatsCache continues: the dashboard is rendered
RefreshDone ==
  /\ refresh.pc \in {"returned", "rendered"}
  /\ refresh' = NoRefresh
  /\ UNCHANGED <<refreshFrame, slotVars>>

\* Faulty variant: no handler on the promise: a rejection ends the process and
\* with it every timer
CallerNoCatch(outcome, n) == IF outcome = "rejected" THEN 0 ELSE n

\* The callers of runSync handle a rejection (.catch in startSync, try/catch
\* in dashboardController.sync): n timers remain n timers.
CallerCatch(outcome, n) == n

\* the caller of runSync continues with the settled promise
Settle(c) ==
  /\ Ended(c)
  /\ cyc' = [cyc EXCEPT ![c] = IdleCycle]
  /\ gh' = [gh EXCEPT ![c] = IdleGh]
  /\ intervals' = CallerCatch(cyc[c].pc, intervals)
  /\ timeouts' = CallerCatch(cyc[c].pc, timeouts)
  /\ UNCHANGED <<envVars, settings, scrobbles, slotVars, statsResp,
                 delivered, syncInterval, started>>

\* the account scrobbles one more play
Scrobble ==
  /\ upN < MaxUp
  /\ upN' = upN + 1
  /\ UNCHANGED <<fromInclusive, database, options, settings, scrobbles,
                 slotVars, cyc, statsResp, gh, delivered, timerVars>>

\* dashboardController.saveSettings with body {apiKey, username}; without a
\* database handle it answers 503 and changes nothing
SaveSettings(a, u) ==
  /\ database
  /\ settings' = [present |-> TRUE, apiKey |-> a, username |-> u]
  /\ UNCHANGED <<envVars, scrobbles, slotVars, cyc, statsResp, gh,
                 delivered, timerVars>>

\* Faulty variant: the handler consults the cache slot before the store handle
StatsApiCacheFirst(hasGetter, ok) ==
  LET db == hasGetter /\ database
      stats == getCachedStats
      seen == [status |-> 0, source |-> "none", db |-> db,
               slot |-> cachedStats.set, retryAfter |-> FALSE]
  IN /\ statsResp' =
          IF stats.set
          THEN [seen EXCEPT !.status = 200, !.source = "cache"]
          ELSE IF ~db
               THEN [seen EXCEPT !.status = 503]
               ELSE IF ok
                    THEN [seen EXCEPT !.status = 200, !.source = "live"]
                    ELSE [seen EXCEPT !.status = 500]
     /\ UNCHANGED <<envVars, settings, scrobbles, slotVars, cyc, gh,
                    delivered, timerVars>>

\* statsController.api; hasGetter = the caller's application has getLastfmDb,
\* ok = the live aggregation did not fail.  The response records what the
\* handler saw: its store handle and whether the slot was populated.
StatsApi(hasGetter, ok) ==
  LET db == hasGetter /\ database
      stats == getCachedStats
      seen == [status |-> 0, source |-> "none", db |-> db,
               slot |-> cachedStats.set, retryAfter |-> FALSE]
  IN /\ statsResp' =
          IF db
          THEN IF ok
               THEN [seen EXCEPT !.status = 200, !.source = "live"]
               ELSE [seen EXCEPT !.status = 500]
          ELSE IF ~stats.set
               THEN [seen EXCEPT !.status = 503]
               ELSE [seen EXCEPT !.status = 200, !.source = "cache"]
     /\ UNCHANGED <<envVars, settings, scrobbles, slotVars, cyc, gh,
                    delivered, timerVars>>

\* time passes
AdvanceClock ==
  /\ now + ClockStep <= MaxClock * ClockStep
  /\ now' = now + ClockStep
  /\ UNCHANGED <<envVars, settings, scrobbles, slotVars, cyc, statsResp, gh,
                 delivered, timerVars, cache, lastCall, scrobblesResp,
                 callVars, refresh>>

\* (faulty variant) an entry is served up to and including its expiry
FreshInclusive(entry, t, ttl) == entry.has /\ t - entry.timestamp <= ttl

\* LastFmClient.fetch: cached && Date.now() - cached.timestamp < this.cacheTtl
Fresh(entry, t, ttl) == entry.has /\ t - entry.timestamp < ttl

\* one call of LastFmClient.fetch on a client with the default TTL; the
\* data of a successful response is the upstream's state at the request
ClientFetch(k, resp) ==
  LET out == FetchOutcome(resp) IN
  /\ IF Fresh(cache[k], now, DefaultCacheTtl)
     THEN /\ lastCall' = [key |-> k, network |-> FALSE, result |-> "ok",
                          data |-> cache[k].data, error |-> NoError]
          /\ cache' = cache
     ELSE IF out = NoError
     THEN /\ cache' = [cache EXCEPT ![k] =
                         [has |-> TRUE, data |-> upN, timestamp |-> now]]
          /\ lastCall' = [key |-> k, network |-> TRUE, result |-> "ok",
                          data |-> upN, error |-> NoError]
     ELSE /\ cache' = cache
          /\ lastCall' = [key |-> k, network |-> TRUE, result |-> "error",
                          data |-> 0, error |-> out]
  /\ UNCHANGED <<envVars, settings, scrobbles, slotVars, cyc, statsResp, gh,
                 delivered, timerVars, now, scrobblesResp, callVars,
                 refresh>>

\* scrobblesController.api (catch): status = error.status || 500
ErrorStatus(err) == IF err.status # 0 THEN err.status ELSE 500

\* scrobblesController.api (catch): retryable: status === 503 || status === 502
Retryable(status) == status = 503 \/ status = 502

\* scrobblesController.api with query {page, limit} (0 = absent) on a client
\* of its own, the upstream answering resp
ScrobblesApi(qpage, qlimit, resp) ==
  LET page == IF qpage # 0 THEN qpage ELSE 1
      limit == Min(IF qlimit # 0 THEN qlimit ELSE DefaultScrobblesLimit,
                   MaxLimit)
      out == FetchOutcome(resp)
      all == Matching(upN, 0, FALSE)
      totalPages == TotalPages(all, limit)
      status == ErrorStatus(out)
  IN /\ scrobblesResp' =
          IF out = NoError
          THEN [NoApiResponse EXCEPT !.status = 200, !.upstream = resp.status,
                  !.json = resp.json, !.page = page, !.hasNext = page < totalPages,
                  !.hasPrev = page > 1,
                  !.count = Len(PageTracks(all, page, limit))]
          ELSE [NoApiResponse EXCEPT !.status = status,
                  !.upstream = resp.status, !.json = resp.json,
                  !.code = resp.apiError, !.error = out.class,
                  !.retryable = Retryable(status),
                  !.retryAfter = (status = 503)]
     /\ UNCHANGED <<envVars, settings, scrobbles, slotVars, cyc, statsResp, gh,
                    delivered, timerVars, now, cache, lastCall, callVars,
                    refresh>>

\* ------------------------------------------------- functions under study
\* the process at rest around one call whose arguments are drawn from S
InitCall(S) ==
  /\ upN = 0
  /\ fromInclusive = FALSE
  /\ database = TRUE
  /\ options = EnvCreds
  /\ InitState
  /\ input \in S
  /\ output = NoOutput

\* the call returns result; nothing else changes
Return(result) ==
  /\ output' = result
  /\ UNCHANGED <<envVars, settings, scrobbles, slotVars, cyc, statsResp, gh,
                 delivered, timerVars, now, cache, lastCall, scrobblesResp,
                 input, refresh>>

\* the six top-entity calls of getAllStats
TopCalls == {"artistsAll", "artistsMonth", "artistsWeek",
             "albumsAll", "albumsMonth", "albumsWeek"}

\* getAllStats(db, limits, client) and what it meets: client = a client was
\* passed, api[k] = top-entity call k succeeds, apiAll = length of the
\* all-time top artists the upstream returns, summaries / fallback = the
\* store serves the summaries and trends / the top-list aggregations
StatsInputs ==
  [ fn : {"getAllStats"}, client : BOOLEAN, api : [TopCalls -> BOOLEAN],
    apiAll : 0..MaxUp, summaries : BOOLEAN, fallback : BOOLEAN ]

\* stats.js getAllStats: outcome and the source of topArtists / topAlbums
getAllStatsTop(in) ==
  LET failed == [fn |-> "getAllStats", status |-> "failed", source |-> "none"]
      apiDone == in.client /\ \A k \in TopCalls : in.api[k]
      topArtistsAll == IF apiDone THEN in.apiAll ELSE 0
  IN IF ~in.summaries THEN failed
     ELSE IF topArtistsAll = 0
          THEN IF in.fallback
               THEN [fn |-> "getAllStats", status |-> "ok", source |-> "db"]
               ELSE failed
          ELSE [fn |-> "getAllStats", status |-> "ok", source |-> "api"]

\* parseInt on a string given as its characters: an optional sign and the
\* leading decimal digits; NaN without a digit.  undefined parses as NaN like
\* the empty string.
DigitVal ==
  ("0" :> 0) @@ ("1" :> 1) @@ ("2" :> 2) @@ ("3" :> 3) @@ ("4" :> 4) @@
  ("5" :> 5) @@ ("6" :> 6) @@ ("7" :> 7) @@ ("8" :> 8) @@ ("9" :> 9)

RECURSIVE DigitsValue(_, _)
DigitsValue(s, acc) ==
  IF s = <<>> \/ Head(s) \notin DOMAIN DigitVal THEN acc
  ELSE DigitsValue(Tail(s), acc * 10 + DigitVal[Head(s)])

NaN == [nan |-> TRUE, val |-> 0]

parseInt(s) ==
  LET signed == s # <<>> /\ Head(s) \in {"-", "+"}
      body == IF signed THEN Tail(s) ELSE s
      v == DigitsValue(body, 0)
  IN IF body = <<>> \/ Head(body) \notin DOMAIN DigitVal THEN NaN
     ELSE [nan |-> FALSE, val |-> IF signed /\ Head(s) = "-" THEN 0 - v ELSE v]

\* parseInt(x) || dflt: NaN and 0 are falsy
OrDefault(n, dflt) == IF n.nan \/ n.val = 0 THEN dflt ELSE n.val

\* days before today on which the store may hold a play
DaysAgo == {0, DefaultDays - 1, DefaultDays, DefaultDays + 1, MaxDays,
            MaxDays + 1}

\* today's day number
Today == MaxDays + 2

RECURSIVE SortByDate(_)
SortByDate(S) ==
  IF S = {} THEN <<>>
  ELSE LET first == CHOOSE x \in S : \A y \in S : x.date <= y.date
       IN <<first>> \o SortByDate(S \ {first})

\* stats.js getScrobbleTrends(db, days) over a store whose plays lie plays[d]
\* to the day d days ago: $match scrobbledAt >= start of the day `days` days
\* ago, $group by day, $sort by date ascending
getScrobbleTrends(plays, days) ==
  SortByDate({[date |-> Today - d, count |-> plays[d]] :
                d \in {e \in DaysAgo : plays[e] > 0 /\ e <= days}})

\* values of request.query.days, as characters
QueryDays ==
  { <<>>, <<"a", "b">>, <<"0">>, <<"7">>, <<"3", "1">>, <<"9", "0">>,
    <<"9", "1">>, <<"-", "5">> }

\* statsController.apiTrends and what it meets: getter = the application has
\* getLastfmDb, slot = a cycle has populated the stats cache (over the same
\* store), ok = the aggregation succeeds
TrendsInputs ==
  [ fn : {"apiTrends"}, qdays : QueryDays, getter : BOOLEAN, slot : BOOLEAN,
    ok : BOOLEAN, plays : [DaysAgo -> 0..1] ]

NoTrends ==
  [ fn |-> "apiTrends", status |-> 0, retryAfter |-> FALSE, days |-> 0,
    window |-> 0, trends |-> <<>> ]

\* statsController.apiTrends; window = the lookback the returned series was
\* computed over
apiTrends(in) ==
  LET days == Min(OrDefault(parseInt(in.qdays), DefaultDays), MaxDays)
  IN IF in.getter
     THEN IF in.ok
          THEN [NoTrends EXCEPT !.status = 200, !.days = days,
                  !.window = days,
                  !.trends = getScrobbleTrends(in.plays, days)]
          ELSE [NoTrends EXCEPT !.status = 500]
     ELSE IF in.slot
          THEN [NoTrends EXCEPT !.status = 200, !.days = DefaultDays,
                  !.window = DefaultDays,
                  !.trends = getScrobbleTrends(in.plays, DefaultDays)]
          ELSE [NoTrends EXCEPT !.status = 503]

\* The stats and trends routes read on a process whose sync has not run.
NextTrends ==
  \/ input.fn = "apiTrends" /\ Return(apiTrends(input)) /\ UNCHANGED hist
  \/ \E g \in BOOLEAN, ok \in BOOLEAN :
       StatsApi(g, ok) /\ UNCHANGED <<hist, clientVars>>

SpecTrends == InitCall(TrendsInputs) /\ [][NextTrends]_vars

\* query and upstream field values of the paged routes, as characters
QueryPageValues == { <<>>, <<"x">>, <<"0">>, <<"1">>, <<"2">>, <<"-", "1">> }
QueryLimitValues ==
  { <<>>, <<"x">>, <<"0">>, <<"1">>, <<"2", "0", "0">>, <<"2", "0", "1">> }
AttrPages == { <<>>, <<"x">>, <<"0">>, <<"1">>, <<"3">> }
AttrNumbers == { <<>>, <<"x">>, <<"3">> }

\* scrobblesController.api / lovedController.api and what they meet:
\* configured = limits.scrobbles or limits.loved (0 = not set), the @attr
\* fields of a successful upstream response, items = tracks on the page
PagedInputs ==
  [ fn : {"scrobbles", "loved"}, qpage : QueryPageValues,
    qlimit : QueryLimitValues, configured : {0, DefaultScrobblesLimit + 1},
    totalPages : AttrPages, total : AttrNumbers, page : AttrNumbers,
    items : 0..PageSize ]

\* (faulty variant) the last page also announces a next page
hasNextInclusive(page, totalPages) == page <= totalPages

\* hasNext: page < totalPages
hasNextOf(page, totalPages) == page < totalPages

\* scrobblesController.api / lovedController.api on a successful response;
\* pageSent, limitSent = the parameters of the upstream request
pagedApi(in) ==
  LET page == OrDefault(parseInt(in.qpage), 1)
      limit == Min(OrDefault(parseInt(in.qlimit),
                     IF in.configured # 0 THEN in.configured
                     ELSE DefaultScrobblesLimit),
                   MaxLimit)
      totalPages == OrDefault(parseInt(in.totalPages), 1)
  IN [ fn |-> in.fn, status |-> 200,
       pageSent |-> page, limitSent |-> Min(limit, MaxLimit),
       total |-> OrDefault(parseInt(in.total), in.items),
       page |-> OrDefault(parseInt(in.page), page),
       hasNext |-> hasNextOf(page, totalPages),
       hasPrev |-> page > 1 ]

\* One read of a paged route answered by the upstream.
NextPaged ==
  input.fn \in {"scrobbles", "loved"} /\ Return(pagedApi(input))
    /\ UNCHANGED hist

SpecPaged == InitCall(PagedInputs) /\ [][NextPaged]_vars

\* An optional property of an upstream object: <<>> = undefined, <<v>> = v.
Opt(S) == {<<>>} \cup {<<v>> : v \in S}

\* JavaScript truthiness of an optional string
Truthy(f) == f # <<>> /\ f[1] # ""

ArtistNames == {"", "A", "B"}

\* track.artist: undefined, a string, or an object with name and "#text"
ArtistValues ==
  [kind : {"undefined"}, str : {""}, name : {<<>>}, text : {<<>>}]
    \cup [kind : {"string"}, str : ArtistNames, name : {<<>>}, text : {<<>>}]
    \cup [kind : {"object"}, str : {""}, name : Opt(ArtistNames),
            text : Opt(ArtistNames)]

\* getArtistName(track); track = FALSE for a missing track
ArtistInputs ==
  [fn : {"getArtistName"}, track : BOOLEAN, artist : ArtistValues]

UnknownArtist == "Unknown Artist"

\* (faulty variant) "#text" is tried before name
getArtistNameTextFirst(in) ==
  [ fn |-> "getArtistName", null |-> FALSE,
    val |-> IF ~in.track THEN UnknownArtist
            ELSE IF Truthy(in.artist.text) THEN in.artist.text[1]
            ELSE IF Truthy(in.artist.name) THEN in.artist.name[1]
            ELSE IF in.artist.kind = "string" THEN in.artist.str
            ELSE UnknownArtist ]

\* utils.js getArtistName
getArtistName(in) ==
  [ fn |-> "getArtistName", null |-> FALSE,
    val |-> IF ~in.track THEN UnknownArtist
            ELSE IF Truthy(in.artist.name) THEN in.artist.name[1]
            ELSE IF Truthy(in.artist.text) THEN in.artist.text[1]
            ELSE IF in.artist.kind = "string" THEN in.artist.str
            ELSE UnknownArtist ]

\* getCoverUrl: const sizePriority
sizePriority == <<"extralarge", "large", "medium", "small">>

\* sizes the upstream labels its image variants with
ImageSizes == {"extralarge", "large", "medium", "small", "mega", "other"}

\* the "#text" of the variant of a size, when it is not empty
UrlOf ==
  [ z \in ImageSizes |->
      CASE z = "extralarge" -> "xl.png" [] z = "large" -> "l.png"
        [] z = "medium" -> "m.png" [] z = "small" -> "s.png"
        [] z = "mega" -> "mega.png" [] OTHER -> "o.png" ]

ImageVariants ==
  UNION {{[size |-> z, text |-> t] : t \in {"", UrlOf[z]}} : z \in ImageSizes}

\* track.image: each size at most once, as the upstream lists them
ImageLists ==
  { l \in UNION {[1..k -> ImageVariants] : k \in 0..MaxImages} :
      \A i, j \in 1..Len(l) : i < j => l[i].size # l[j].size }

\* getCoverUrl(track, preferredSize); array = track.image is an array
CoverInputs ==
  [ fn : {"getCoverUrl"}, array : {FALSE}, image : {<<>>},
    preferred : ImageSizes \ {"other"} ]
    \cup [ fn : {"getCoverUrl"}, array : {TRUE}, image : ImageLists,
            preferred : ImageSizes \ {"other"} ]

\* Array.prototype.indexOf, 0-based, -1 when absent
indexOf(seq, x) ==
  IF \E k \in 1..Len(seq) : seq[k] = x
  THEN (CHOOSE k \in 1..Len(seq) :
          seq[k] = x /\ \A j \in 1..(k - 1) : seq[j] # x) - 1
  ELSE 0 - 1

\* Array.prototype.slice(a, b) with 0-based, possibly negative indices
slice(seq, a, b) ==
  LET n == Len(seq)
      from == IF a < 0 THEN (IF n + a < 0 THEN 0 ELSE n + a) ELSE Min(a, n)
      to == IF b < 0 THEN (IF n + b < 0 THEN 0 ELSE n + b) ELSE Min(b, n)
  IN SubSeq(seq, from + 1, to)

\* (faulty variant) the search stops at the end of the priority list
orderedSizesNoWrap(preferredSize) ==
  slice(sizePriority, indexOf(sizePriority, preferredSize), Len(sizePriority))

\* getCoverUrl: [...slice(startIndex), ...slice(0, startIndex)]
orderedSizes(preferredSize) ==
  LET startIndex == indexOf(sizePriority, preferredSize)
  IN slice(sizePriority, startIndex, Len(sizePriority))
       \o slice(sizePriority, 0, startIndex)

\* image.find((i) => i.size === size): index of the first match from k on,
\* 0 if none
RECURSIVE findSize(_, _, _)
findSize(image, size, k) ==
  IF k > Len(image) THEN 0
  ELSE IF image[k].size = size THEN k ELSE findSize(image, size, k + 1)

\* image.find((i) => i["#text"]): index of the first match from k on, 0 if
\* none
RECURSIVE findAny(_, _)
findAny(image, k) ==
  IF k > Len(image) THEN 0
  ELSE IF image[k].text # "" THEN k ELSE findAny(image, k + 1)

\* getCoverUrl: the loop over orderedSizes from position k on
RECURSIVE coverFrom(_, _, _)
coverFrom(image, sizes, k) ==
  IF k > Len(sizes) THEN 0
  ELSE LET img == findSize(image, sizes[k], 1)
       IN IF img # 0 /\ image[img].text # "" THEN img
          ELSE coverFrom(image, sizes, k + 1)

\* utils.js getCoverUrl
getCoverUrl(in) ==
  LET none == [fn |-> "getCoverUrl", null |-> TRUE, val |-> ""]
      url(k) == [fn |-> "getCoverUrl", null |-> FALSE,
                 val |-> in.image[k].text]
      hit == coverFrom(in.image, orderedSizes(in.preferred), 1)
      anyImg == findAny(in.image, 1)
  IN IF ~in.array THEN none
     ELSE IF hit # 0 THEN url(hit)
     ELSE IF anyImg # 0 THEN url(anyImg)
     ELSE none

\* Date.now() at the call, in milliseconds
CallTimes == {2 * RecentMins * 60000, 2 * RecentMins * 60000 + 999}

\* age of the play in whole seconds at the earlier of the call times
PlayAges ==
  { 0, 59 * 60, NowPlayingMins * 60 - 1, NowPlayingMins * 60, 61 * 60,
    RecentMins * 60 - 1, RecentMins * 60, 25 * 60 * 60 }

\* getPlayingStatus(track): nowplaying = track["@attr"]?.nowplaying,
\* uts = track.date?.uts in seconds (undefined for a track without date)
StatusInputs ==
  [ fn : {"getPlayingStatus"}, nowplaying : Opt({"true", "false"}),
    uts : Opt({2 * RecentMins * 60 - a : a \in PlayAges}),
    time : CallTimes ]

\* utils.js parseDate(track.date) in milliseconds at time t
parseDateAt(uts, t) == IF uts = <<>> THEN t ELSE uts[1] * 1000

\* (faulty variant) the bound itself is still within the class
UnderMinsInclusive(diffMs, mins) == diffMs <= mins * 60000

\* diffMs / 60_000 < mins
UnderMins(diffMs, mins) == diffMs < mins * 60000

\* utils.js getPlayingStatus
getPlayingStatus(in) ==
  LET diffMs == in.time - parseDateAt(in.uts, in.time)
      status(v) == [fn |-> "getPlayingStatus", null |-> FALSE, val |-> v]
  IN IF in.nowplaying = <<"true">> THEN status("now-playing")
     ELSE IF UnderMins(diffMs, NowPlayingMins) THEN status("now-playing")
     ELSE IF UnderMins(diffMs, RecentMins) THEN status("recently-played")
     ELSE [fn |-> "getPlayingStatus", null |-> TRUE, val |-> ""]

\* One call of a helper of utils.js.
NextUtils ==
  \/ input.fn = "getArtistName" /\ Return(getArtistName(input))
       /\ UNCHANGED hist
  \/ input.fn = "getCoverUrl" /\ Return(getCoverUrl(input))
       /\ UNCHANGED hist
  \/ input.fn = "getPlayingStatus" /\ Return(getPlayingStatus(input))
       /\ UNCHANGED hist

SpecUtils ==
  InitCall(ArtistInputs \cup CoverInputs \cup StatusInputs)
    /\ [][NextUtils]_vars

\* One computation of the snapshot, whatever the client and the store do.
NextStats ==
  input.fn = "getAllStats" /\ Return(getAllStatsTop(input)) /\ UNCHANGED hist

SpecStats == InitCall(StatsInputs) /\ [][NextStats]_vars

\* age in days of a stored row when the summary is computed
SummaryAges == {0, WeekDays, WeekDays + 1, MonthDays + 1}

\* rows of the scrobbles collection as getSummary reads them; albumTitle ""
\* = null (getAlbumName found no album)
SummaryRows ==
  [ artistName : {ArtistOf(1), ArtistOf(2)},
    trackTitle : {TrackOf(1), TrackOf(2)},
    albumTitle : {"", "X"}, loved : BOOLEAN, age : SummaryAges ]

\* the unique index {trackTitle, artistName, scrobbledAt} holds of rows
UniqueTriples(rows) ==
  \A r1, r2 \in rows :
    (r1.artistName = r2.artistName /\ r1.trackTitle = r2.trackTitle
       /\ r1.age = r2.age) => r1 = r2

\* the store contents of up to n rows
RECURSIVE StoresUpTo(_)
StoresUpTo(n) ==
  IF n = 0 THEN {{}}
  ELSE LET smaller == StoresUpTo(n - 1)
       IN smaller \cup
            {rows \cup {r} : rows \in smaller, r \in SummaryRows}

SummaryInputs ==
  [ fn : {"getSummary"},
    rows : {rows \in StoresUpTo(MaxRows) : UniqueTriples(rows)} ]

Periods == {"all", "month", "week"}

\* stats.js getDateMatch(period) applied to a row: scrobbledAt >= now - days
getDateMatch(period, r) ==
  IF period = "week" THEN r.age <= WeekDays
  ELSE IF period = "month" THEN r.age <= MonthDays
  ELSE TRUE

\* getSummary: $addToSet: {$concat: ["$artistName", ":", "$trackTitle"]}
uniqueTracks(rows) == {r.artistName \o <<":">> \o r.trackTitle : r \in rows}

\* getSummary: $addToSet: "$albumTitle", $filter: {$ne: ["$$this", null]}
uniqueAlbums(rows) == {r.albumTitle : r \in rows} \ {""}

\* stats.js getSummary(db, period); without a matching row $group yields
\* no document and the zero summary is returned
getSummary(rows, period) ==
  LET m == {r \in rows : getDateMatch(period, r)}
  IN [ totalPlays |-> Cardinality(m),
       lovedCount |-> Cardinality({r \in m : r.loved}),
       uniqueTracks |-> Cardinality(uniqueTracks(m)),
       uniqueArtists |-> Cardinality({r.artistName : r \in m}),
       uniqueAlbums |-> Cardinality(uniqueAlbums(m)) ]

\* getAllStats: the three summaries of one snapshot
summaries(in) ==
  [ fn |-> "getSummary",
    summary |-> [p \in Periods |-> getSummary(in.rows, p)] ]

\* The summaries of every store content.
NextSummary ==
  input.fn = "getSummary" /\ Return(summaries(input)) /\ UNCHANGED hist

SpecSummary == InitCall(SummaryInputs) /\ [][NextSummary]_vars

\* the settings document: absent, or present with each field empty or set
SettingsDocs ==
  {NoSettings} \cup
    {[present |-> TRUE, apiKey |-> a, username |-> u] :
       a \in {"", "K"}, u \in {"", "U"}}

\* the settings document, whether it can be read, the process defaults
ResolveInputs ==
  [ fn : {"resolve"}, doc : SettingsDocs, readOk : BOOLEAN,
    options : {[apiKey |-> a, username |-> u] :
                 a \in {"", "K0"}, u \in {"", "U0"}} ]

\* The three ways credentials are resolved, over one state of the settings
\* document: the read paths (getEffectiveConfig), the manual trigger
\* (runSync called with the options getEffectiveConfig gave) and the timer
\* (runSync called with the process defaults).
NextResolve ==
  \/ /\ input.fn = "resolve" /\ output = NoOutput
     /\ Return([fn |-> "read",
                read |-> getEffectiveConfig(input.doc, input.readOk,
                                            input.options)])
     /\ UNCHANGED hist
  \/ /\ output.fn = "read"
     /\ Return([fn |-> "manual", read |-> output.read,
                manual |-> getEffectiveSyncOptions(input.doc, input.readOk,
                                                   output.read)])
     /\ UNCHANGED hist
  \/ /\ output.fn = "manual"
     /\ Return([fn |-> "timer", read |-> output.read,
                manual |-> output.manual,
                sync |-> getEffectiveSyncOptions(input.doc, input.readOk,
                                                 input.options)])
     /\ UNCHANGED hist

SpecResolve == InitCall(ResolveInputs) /\ [][NextResolve]_vars

\* ------------------------------------------------------- specifications
Quiet == \A c \in Cycles : cyc[c].pc = "idle"

\* history at the start of runSync for trigger k: the run is a second run
\* when the run before it returned a count and the upstream has not changed
\* since that run started
Begin(k) ==
  [ hist EXCEPT !.kind = k, !.second = hist.prev = "ok", !.changed = FALSE,
                !.prev = IF hist.prev = "ok" THEN "other" ELSE hist.prev ]

\* history when the upstream changes
Changed ==
  [ hist EXCEPT !.second = FALSE, !.changed = ~Quiet,
                !.prev = IF hist.prev = "ok" THEN "other" ELSE hist.prev ]

\* history when the run's caller continues: the run was "ok" when it
\* returned a count, no operation of it failed and the upstream did not
\* change while it ran
Finish(c) ==
  [ hist EXCEPT !.kind = "none", !.second = FALSE, !.changed = FALSE,
      !.prev = IF /\ cyc[c].pc = "returned"
                  /\ cyc[c].result.error = ""
                  /\ ~gh[c].faulted
                  /\ ~hist.changed
               THEN "ok"
               ELSE IF cyc[c].pc = "rejected" /\ hist.kind = "tick"
                    THEN "tick-rejected"
                    ELSE "other" ]

\* Serial schedule: a trigger arrives when no invocation is in flight (the
\* timer period exceeds the duration of a cycle, the admin waits for the
\* redirect).  The steps of the invocation are the program's.
SerialInitialRun == \E c \in Cycles :
  Quiet /\ InitialRun(c) /\ hist' = Begin("initial") /\ UNCHANGED clientVars
SerialTick == \E c \in Cycles :
  Quiet /\ Tick(c) /\ hist' = Begin("tick") /\ UNCHANGED clientVars
SerialManualSync == \E c \in Cycles :
  Quiet /\ ManualSync(c) /\ hist' = [hist EXCEPT !.kind = "manual"] /\ UNCHANGED clientVars
SerialManualConfig == \E c \in Cycles :
  ManualConfig(c) /\ hist' = Begin("manual") /\ UNCHANGED clientVars
SerialSettle == \E c \in Cycles :
  Settle(c) /\ hist' = Finish(c) /\ UNCHANGED clientVars

\* the settings form is saved empty or with both fields
SettingsForms == {NoCreds, [apiKey |-> "K", username |-> "U"]}

Next ==
  \/ StartSync /\ UNCHANGED <<hist, clientVars>>
  \/ StopSync /\ UNCHANGED <<hist, clientVars>>
  \/ SerialInitialRun
  \/ SerialTick
  \/ SerialManualSync
  \/ SerialManualConfig
  \/ \E c \in Cycles : ResolveConfig(c) /\ UNCHANGED <<hist, clientVars>>
  \/ \E c \in Cycles : ReadWatermark(c) /\ UNCHANGED <<hist, clientVars>>
  \/ \E c \in Cycles : FetchPage(c) /\ UNCHANGED <<hist, clientVars>>
  \/ \E c \in Cycles : Upsert(c) /\ UNCHANGED <<hist, clientVars>>
  \/ \E c \in Cycles : ComputeStats(c) /\ UNCHANGED <<hist, clientVars>>
  \/ \E c \in Cycles : UpdateCache(c) /\ UNCHANGED <<hist, clientVars>>
  \/ SerialSettle
  \/ Scrobble /\ hist' = Changed /\ UNCHANGED clientVars
  \/ \E b \in SettingsForms :
       SaveSettings(b.apiKey, b.username) /\ UNCHANGED <<hist, clientVars>>

Spec == Init /\ [][Next]_vars

\* Overlapping schedule: every trigger may arrive while invocations are in
\* flight; the code has no guard between them.
InitOverlap ==
  /\ Init
  /\ database
  /\ options = EnvCreds
  /\ ~fromInclusive

NextOverlap ==
  \/ StartSync /\ UNCHANGED <<hist, clientVars>>
  \/ StopSync /\ UNCHANGED <<hist, clientVars>>
  \/ \E c \in Cycles : InitialRun(c) /\ UNCHANGED <<hist, clientVars>>
  \/ \E c \in Cycles : Tick(c) /\ UNCHANGED <<hist, clientVars>>
  \/ \E c \in Cycles : ManualSync(c) /\ UNCHANGED <<hist, clientVars>>
  \/ \E c \in Cycles : ManualConfig(c) /\ UNCHANGED <<hist, clientVars>>
  \/ \E c \in Cycles : ResolveConfig(c) /\ UNCHANGED <<hist, clientVars>>
  \/ \E c \in Cycles : ReadWatermark(c) /\ UNCHANGED <<hist, clientVars>>
  \/ \E c \in Cycles : FetchPage(c) /\ UNCHANGED <<hist, clientVars>>
  \/ \E c \in Cycles : Upsert(c) /\ UNCHANGED <<hist, clientVars>>
  \/ \E c \in Cycles : ComputeStats(c) /\ UNCHANGED <<hist, clientVars>>
  \/ \E c \in Cycles : UpdateCache(c) /\ UNCHANGED <<hist, clientVars>>
  \/ \E c \in Cycles : Settle(c) /\ UNCHANGED <<hist, clientVars>>
  \/ Scrobble /\ UNCHANGED <<hist, clientVars>>

SpecOverlap == InitOverlap /\ [][NextOverlap]_vars

\* Serial schedule with the public stats route being called at any time.
NextRead ==
  \/ StartSync /\ UNCHANGED <<hist, clientVars>>
  \/ StopSync /\ UNCHANGED <<hist, clientVars>>
  \/ \E c \in Cycles : Quiet /\ InitialRun(c) /\ UNCHANGED <<hist, clientVars>>
  \/ \E c \in Cycles : Quiet /\ Tick(c) /\ UNCHANGED <<hist, clientVars>>
  \/ \E c \in Cycles : Quiet /\ ManualSync(c) /\ UNCHANGED <<hist, clientVars>>
  \/ \E c \in Cycles : ManualConfig(c) /\ UNCHANGED <<hist, clientVars>>
  \/ \E c \in Cycles : ResolveConfig(c) /\ UNCHANGED <<hist, clientVars>>
  \/ \E c \in Cycles : ReadWatermark(c) /\ UNCHANGED <<hist, clientVars>>
  \/ \E c \in Cycles : FetchPage(c) /\ UNCHANGED <<hist, clientVars>>
  \/ \E c \in Cycles : Upsert(c) /\ UNCHANGED <<hist, clientVars>>
  \/ \E c \in Cycles : ComputeStats(c) /\ UNCHANGED <<hist, clientVars>>
  \/ \E c \in Cycles : UpdateCache(c) /\ UNCHANGED <<hist, clientVars>>
  \/ \E c \in Cycles : Settle(c) /\ UNCHANGED <<hist, clientVars>>
  \/ Scrobble /\ UNCHANGED <<hist, clientVars>>
  \/ \E g \in BOOLEAN, ok \in BOOLEAN : StatsApi(g, ok) /\ UNCHANGED <<hist, clientVars>>

SpecRead == Init /\ [][NextRead]_vars

\* The process with credentials from the environment and a store.
InitConfigured ==
  /\ Init
  /\ database
  /\ options = EnvCreds
  /\ ~fromInclusive

\* Serial timer-driven cycles while time passes and the public stats route
\* is read; the history keeps the snapshot last handed to setCachedStats.
NextSlot ==
  \/ StartSync /\ UNCHANGED <<hist, clientVars>>
  \/ \E c \in Cycles : Quiet /\ InitialRun(c) /\ UNCHANGED <<hist, clientVars>>
  \/ \E c \in Cycles : Quiet /\ Tick(c) /\ UNCHANGED <<hist, clientVars>>
  \/ \E c \in Cycles : ResolveConfig(c) /\ UNCHANGED <<hist, clientVars>>
  \/ \E c \in Cycles : ReadWatermark(c) /\ UNCHANGED <<hist, clientVars>>
  \/ \E c \in Cycles : FetchPage(c) /\ UNCHANGED <<hist, clientVars>>
  \/ \E c \in Cycles : Upsert(c) /\ UNCHANGED <<hist, clientVars>>
  \/ \E c \in Cycles : ComputeStats(c) /\ UNCHANGED <<hist, clientVars>>
  \/ \E c \in Cycles, ok \in BOOLEAN :
       /\ UpdateCacheWith(c, ok)
       /\ hist' = IF ok THEN [hist EXCEPT !.written = cyc[c].snap] ELSE hist
       /\ UNCHANGED clientVars
  \/ \E c \in Cycles : Settle(c) /\ UNCHANGED <<hist, clientVars>>
  \/ Scrobble /\ UNCHANGED <<hist, clientVars>>
  \/ AdvanceClock /\ UNCHANGED hist
  \/ \E ok \in BOOLEAN : StatsApi(FALSE, ok) /\ UNCHANGED <<hist, clientVars>>

SpecSlot == InitConfigured /\ [][NextSlot]_vars

\* The configured process over either behaviour of the upstream's "from".
InitFetch ==
  /\ Init
  /\ database
  /\ options = EnvCreds

\* Serial timer-driven cycles while the account keeps playing.
NextFetch ==
  \/ StartSync /\ UNCHANGED <<hist, clientVars>>
  \/ \E c \in Cycles : Quiet /\ InitialRun(c) /\ UNCHANGED <<hist, clientVars>>
  \/ \E c \in Cycles : Quiet /\ Tick(c) /\ UNCHANGED <<hist, clientVars>>
  \/ \E c \in Cycles : ResolveConfig(c) /\ UNCHANGED <<hist, clientVars>>
  \/ \E c \in Cycles : ReadWatermark(c) /\ UNCHANGED <<hist, clientVars>>
  \/ \E c \in Cycles : FetchPage(c) /\ UNCHANGED <<hist, clientVars>>
  \/ \E c \in Cycles : Upsert(c) /\ UNCHANGED <<hist, clientVars>>
  \/ \E c \in Cycles : ComputeStats(c) /\ UNCHANGED <<hist, clientVars>>
  \/ \E c \in Cycles : UpdateCache(c) /\ UNCHANGED <<hist, clientVars>>
  \/ \E c \in Cycles : Settle(c) /\ UNCHANGED <<hist, clientVars>>
  \/ Scrobble /\ UNCHANGED <<hist, clientVars>>

\* Every page request settles: the awaited fetch resolves or rejects.
SpecFetch ==
  /\ InitFetch
  /\ [][NextFetch]_vars
  /\ \A c \in Cycles : WF_vars(FetchPage(c) /\ UNCHANGED <<hist, clientVars>>)

\* history: a response of the backfill (marker) or of an incremental fetch
\* (markerNew) carried the now-playing entry
MarkerSeenOn(c, ok, np) ==
  [hist EXCEPT !.marker = @ \/ (ok /\ np /\ cyc[c].latestDate = 0),
               !.markerNew = @ \/ (ok /\ np /\ cyc[c].latestDate # 0)]

\* Serial timer-driven cycles while the account keeps playing; the history
\* keeps which fetch paths met the now-playing entry.
NextMarker ==
  \/ StartSync /\ UNCHANGED <<hist, clientVars>>
  \/ \E c \in Cycles : Quiet /\ InitialRun(c) /\ UNCHANGED <<hist, clientVars>>
  \/ \E c \in Cycles : Quiet /\ Tick(c) /\ UNCHANGED <<hist, clientVars>>
  \/ \E c \in Cycles : ResolveConfig(c) /\ UNCHANGED <<hist, clientVars>>
  \/ \E c \in Cycles : ReadWatermark(c) /\ UNCHANGED <<hist, clientVars>>
  \/ \E c \in Cycles, ok \in BOOLEAN, np \in BOOLEAN :
       FetchPageWith(c, ok, np) /\ hist' = MarkerSeenOn(c, ok, np)
         /\ UNCHANGED clientVars
  \/ \E c \in Cycles : Upsert(c) /\ UNCHANGED <<hist, clientVars>>
  \/ \E c \in Cycles : ComputeStats(c) /\ UNCHANGED <<hist, clientVars>>
  \/ \E c \in Cycles : UpdateCache(c) /\ UNCHANGED <<hist, clientVars>>
  \/ \E c \in Cycles : Settle(c) /\ UNCHANGED <<hist, clientVars>>
  \/ Scrobble /\ UNCHANGED <<hist, clientVars>>

SpecMarker == InitFetch /\ [][NextMarker]_vars

\* The answers one client instance meets: success, transport failure,
\* non-JSON body, application-level error.
ClientResponses ==
  {r \in Responses : r.status \in {0, 200}}

\* One client instance with the default TTL called again and again while
\* time passes and the account keeps playing.
NextClient ==
  \/ \E k \in Keys, resp \in ClientResponses :
       ClientFetch(k, resp) /\ UNCHANGED hist
  \/ AdvanceClock /\ UNCHANGED hist
  \/ Scrobble /\ UNCHANGED <<hist, clientVars>>

SpecClient == InitConfigured /\ [][NextClient]_vars

\* query values of the public scrobbles route: 0 = absent or unparsable
QueryPages == 0..MaxUp
QueryLimits == {0, PageSize, PageSize + 1}

\* The public scrobbles route read again and again, the upstream answering
\* in every way it can, while the account keeps playing.
NextApi ==
  \/ \E qpage \in QueryPages, qlimit \in QueryLimits, resp \in Responses :
       ScrobblesApi(qpage, qlimit, resp) /\ UNCHANGED hist
  \/ Scrobble /\ UNCHANGED <<hist, clientVars>>

SpecApi == Init /\ [][NextApi]_vars

\* A first sync over an account whose history may exceed the backfill cap.
InitBackfill ==
  /\ upN \in 0..((BackfillMaxPages + BackfillExtra) * PageSize)
  /\ fromInclusive = FALSE
  /\ database = TRUE
  /\ options = EnvCreds
  /\ InitProcess

\* history: a response carried the now-playing entry.  The store serves
\* every upsert of the backfill.
MarkerSeen(ok, np) == [hist EXCEPT !.marker = @ \/ (ok /\ np)]

NextBackfill ==
  \/ StartSync /\ UNCHANGED <<hist, clientVars>>
  \/ \E c \in Cycles : Quiet /\ InitialRun(c) /\ UNCHANGED <<hist, clientVars>>
  \/ \E c \in Cycles : ResolveConfig(c) /\ UNCHANGED <<hist, clientVars>>
  \/ \E c \in Cycles : ReadWatermark(c) /\ UNCHANGED <<hist, clientVars>>
  \/ \E c \in Cycles, ok \in BOOLEAN, np \in BOOLEAN :
       FetchPageWith(c, ok, np) /\ hist' = MarkerSeen(ok, np)
         /\ UNCHANGED clientVars
  \/ \E c \in Cycles : UpsertWith(c, FALSE) /\ UNCHANGED <<hist, clientVars>>
  \/ \E c \in Cycles : ComputeStats(c) /\ UNCHANGED <<hist, clientVars>>
  \/ \E c \in Cycles : UpdateCache(c) /\ UNCHANGED <<hist, clientVars>>
  \/ \E c \in Cycles : Settle(c) /\ UNCHANGED <<hist, clientVars>>

SpecBackfill == InitBackfill /\ [][NextBackfill]_vars

\* Every combination of credentials in the process environment.
OptionSets == {[apiKey |-> a, username |-> u] : a \in {"", "K0"}, u \in {"", "U0"}}

\* every way to fill the two fields of the settings form
AllForms == {[apiKey |-> a, username |-> u] : a \in {"", "K"}, u \in {"", "U"}}

InitConfig ==
  /\ upN = 0
  /\ fromInclusive = FALSE
  /\ database = TRUE
  /\ options \in OptionSets
  /\ InitProcess

\* history of the settings reads of the run in flight
ReadSeen(readOk) ==
  LET r == IF readOk THEN "ok" ELSE "failed"
  IN IF hist.read \in {"none", r} THEN r ELSE "mixed"

\* Serial cycles over an unchanging upstream; the settings are saved
\* between cycles.  The history keeps how the settings reads of the run
\* in flight ended.
NextConfig ==
  \/ StartSync /\ UNCHANGED <<hist, clientVars>>
  \/ \E c \in Cycles :
       /\ Quiet /\ InitialRun(c)
       /\ hist' = [hist EXCEPT !.read = "none"] /\ UNCHANGED clientVars
  \/ \E c \in Cycles :
       /\ Quiet /\ Tick(c)
       /\ hist' = [hist EXCEPT !.read = "none"] /\ UNCHANGED clientVars
  \/ \E c \in Cycles :
       /\ Quiet /\ ManualSync(c)
       /\ hist' = [hist EXCEPT !.read = "none"] /\ UNCHANGED clientVars
  \/ \E c \in Cycles, readOk \in BOOLEAN :
       /\ ManualConfigWith(c, readOk)
       /\ hist' = [hist EXCEPT !.read = ReadSeen(readOk)]
       /\ UNCHANGED clientVars
  \/ \E c \in Cycles, readOk \in BOOLEAN :
       /\ ResolveConfigWith(c, readOk)
       /\ hist' = [hist EXCEPT !.read = ReadSeen(readOk)]
       /\ UNCHANGED clientVars
  \/ \E c \in Cycles : ReadWatermark(c) /\ UNCHANGED <<hist, clientVars>>
  \/ \E c \in Cycles : FetchPage(c) /\ UNCHANGED <<hist, clientVars>>
  \/ \E c \in Cycles : ComputeStats(c) /\ UNCHANGED <<hist, clientVars>>
  \/ \E c \in Cycles : UpdateCache(c) /\ UNCHANGED <<hist, clientVars>>
  \/ \E c \in Cycles : Settle(c) /\ UNCHANGED <<hist, clientVars>>
  \/ \E b \in AllForms :
       /\ Quiet /\ SaveSettings(b.apiKey, b.username)
       /\ UNCHANGED <<hist, clientVars>>

SpecConfig == InitConfig /\ [][NextConfig]_vars

\* history: the snapshot last handed to setCachedStats and the time of it
Written(ok, snap) ==
  IF ok THEN [hist EXCEPT !.written = snap, !.writtenAt = now] ELSE hist

\* Serial timer-driven cycles interleaved at every await with a dashboard
\* request that refreshes the empty slot, with direct calls of
\* refreshStatsCache and with reads of the public stats route, while time
\* passes.  The upstream and the store serve every page request and upsert.
NextRefresh ==
  \/ StartSync /\ UNCHANGED <<hist, clientVars>>
  \/ \E c \in Cycles : Quiet /\ InitialRun(c) /\ UNCHANGED <<hist, clientVars>>
  \/ \E c \in Cycles : Quiet /\ Tick(c) /\ UNCHANGED <<hist, clientVars>>
  \/ \E c \in Cycles : ResolveConfig(c) /\ UNCHANGED <<hist, clientVars>>
  \/ \E c \in Cycles : ReadWatermark(c) /\ UNCHANGED <<hist, clientVars>>
  \/ \E c \in Cycles :
       FetchPageWith(c, TRUE, FALSE) /\ UNCHANGED <<hist, clientVars>>
  \/ \E c \in Cycles : UpsertWith(c, FALSE) /\ UNCHANGED <<hist, clientVars>>
  \/ \E c \in Cycles : ComputeStats(c) /\ UNCHANGED <<hist, clientVars>>
  \/ \E c \in Cycles, ok \in BOOLEAN :
       /\ UpdateCacheWith(c, ok)
       /\ hist' = Written(ok, cyc[c].snap)
       /\ UNCHANGED clientVars
  \/ \E c \in Cycles : Settle(c) /\ UNCHANGED <<hist, clientVars>>
  \/ Scrobble /\ UNCHANGED <<hist, clientVars>>
  \/ AdvanceClock /\ UNCHANGED hist
  \/ \E g \in BOOLEAN : DashboardStats(g) /\ UNCHANGED hist
  \/ \E db \in BOOLEAN : RefreshCall(db) /\ UNCHANGED hist
  \/ \E ok \in BOOLEAN : RefreshSummaries(ok) /\ UNCHANGED hist
  \/ \E ok \in BOOLEAN :
       RefreshTop(ok) /\ hist' = Written(ok, refresh.snap)
  \/ RefreshDone /\ UNCHANGED hist
  \/ \E ok \in BOOLEAN : StatsApi(FALSE, ok) /\ UNCHANGED <<hist, clientVars>>

SpecRefresh == InitConfigured /\ [][NextRefresh]_vars

\* history at the start of a cycle: the store as the cycle finds it and
\* whether an earlier cycle has written an event
CycleStart ==
  [hist EXCEPT !.startRows = scrobbles, !.wroteBefore = hist.wrote]

\* history of an updateOne: the store served it
Wrote(err) == [hist EXCEPT !.wrote = @ \/ ~err]

\* Serial timer-driven cycles while the account keeps playing; the history
\* keeps the store as the cycle in flight found it.
NextCycle ==
  \/ StartSync /\ UNCHANGED <<hist, clientVars>>
  \/ \E c \in Cycles :
       Quiet /\ InitialRun(c) /\ hist' = CycleStart /\ UNCHANGED clientVars
  \/ \E c \in Cycles :
       Quiet /\ Tick(c) /\ hist' = CycleStart /\ UNCHANGED clientVars
  \/ \E c \in Cycles : ResolveConfig(c) /\ UNCHANGED <<hist, clientVars>>
  \/ \E c \in Cycles : ReadWatermark(c) /\ UNCHANGED <<hist, clientVars>>
  \/ \E c \in Cycles : FetchPage(c) /\ UNCHANGED <<hist, clientVars>>
  \/ \E c \in Cycles, err \in BOOLEAN :
       UpsertWith(c, err) /\ hist' = Wrote(err) /\ UNCHANGED clientVars
  \/ \E c \in Cycles : ComputeStats(c) /\ UNCHANGED <<hist, clientVars>>
  \/ \E c \in Cycles : UpdateCache(c) /\ UNCHANGED <<hist, clientVars>>
  \/ \E c \in Cycles : Settle(c) /\ UNCHANGED <<hist, clientVars>>
  \/ Scrobble /\ UNCHANGED <<hist, clientVars>>

SpecCycle == InitFetch /\ [][NextCycle]_vars

\* ------------------------------------------------------------------ claims
StoredTriples == {Triple(r) : r \in scrobbles}

\* C1: at most one invocation of runSync is between its start and its
\* completion at any moment, whatever the interleaving of the initial run,
\* the timer ticks and the manual triggers.
C1_AtMostOneCycle == Cardinality({c \in Cycles : InProgress(c)}) <= 1

\* C2: the store holds exactly one row for every triple that was handed to
\* the upsert as a completed play: none is stored twice, none is missing.
C2_ExactlyTheDelivered ==
  /\ StoredTriples = delivered
  /\ \A r1, r2 \in scrobbles : Triple(r1) = Triple(r2) => r1 = r2

\* C3: a run that follows a run which returned a count, with the upstream
\* unchanged from the start of the first to the end of the second, reports
\* zero newly written events.
C3_SecondRunReportsZero ==
  \A c \in Cycles :
    (cyc[c].pc = "returned" /\ hist.second) => cyc[c].result.synced = 0

\* C4: the count a cycle reports equals the number of rows the cycle
\* inserted; overwrites and intra-batch duplicates do not count.
C4_CountIsInserted ==
  \A c \in Cycles :
    (cyc[c].pc = "returned" /\ cyc[c].result.error = "")
      => cyc[c].result.synced = gh[c].inserted

\* C5: runSync always completes by returning a result, never by rejecting.
C5_NeverRejects == \A c \in Cycles : cyc[c].pc # "rejected"

\* C6: the caller continuing after a cycle has ended, in whatever outcome,
\* leaves every timer of the scheduler as it was.
C6_SchedulerStaysArmed ==
  [][ \A c \in Cycles :
        (Ended(c) /\ cyc'[c].pc = "idle")
          => /\ intervals' = intervals
             /\ timeouts' = timeouts
             /\ syncInterval' = syncInterval ]_vars

\* C6 witness: a tick starts a cycle after a tick-started cycle was rejected.
C6_Witness ==
  /\ hist.kind = "tick"
  /\ hist.prev = "tick-rejected"
  /\ \E c \in Cycles : cyc[c].pc = "cfg"

\* C7: a cycle that got past the credentials check has replaced the stats
\* cache by the time it ends, unless the stats computation itself failed.
C7_AlwaysRecomputes ==
  \A c \in Cycles :
    (Ended(c) /\ cyc[c].result.error = "" /\ gh[c].stats # "failed")
      => gh[c].stats = "replaced"

\* C8: a cycle whose page request k > 1 failed has fetched no further page
\* and has gone on to recompute the stats by the time it ends.
C8_FailedPageStillRecomputes ==
  \A c \in Cycles :
    (Ended(c) /\ gh[c].failedPage > 1) => gh[c].stats # "none"

\* C9: a caller without store handle gets "not ready" while the slot is
\* empty, and once a cycle has ended (its stats computation not having
\* failed) the slot holds a snapshot whose totalPlays is the number of rows
\* in the store.
C9_ReadyAfterOneCycle ==
  /\ (statsResp.status # 0 /\ ~statsResp.db /\ ~statsResp.slot)
       => statsResp.status = 503
  /\ \A c \in Cycles :
       (Ended(c) /\ cyc[c].result.error = "" /\ gh[c].stats # "failed")
         => /\ getCachedStats.set
            /\ getCachedStats.totalPlays = Cardinality(scrobbles)

\* C10: with a store handle the response is computed live; without one it
\* is the cached snapshot when the slot is populated; 503 is answered only
\* without a store handle and with the slot empty.
C10_ReadPriority ==
  /\ statsResp.db => (statsResp.source = "live" \/ statsResp.status = 500)
  /\ (statsResp.status # 0 /\ ~statsResp.db /\ statsResp.slot)
       => (statsResp.status = 200 /\ statsResp.source = "cache")
  /\ statsResp.status = 503 => (~statsResp.db /\ ~statsResp.slot)
  /\ statsResp.slot => cachedStats.set

\* C10 witness: a caller without store handle was served the cached snapshot.
C10_Witness ==
  /\ statsResp.status = 200
  /\ statsResp.source = "cache"
  /\ ~statsResp.db

\* C11: a read of the stats cache returns the snapshot most recently
\* written to the slot, whatever the time since the write; once the slot is
\* populated no step makes a read return empty.
C11_ReadIsLastWritten ==
  /\ [](hist.written.set => getCachedStats = hist.written)
  /\ [][getCachedStats.set => getCachedStats'.set]_vars

\* C11 witness: a populated slot older than the freshness window is read.
C11_Witness ==
  /\ hist.written.set
  /\ hist.written.totalPlays > 0
  /\ now - cachedStatsTime > STATS_CACHE_TTL
  /\ getCachedStats = hist.written
  /\ statsResp.source = "cache"

\* what the stored settings and the defaults d yield, field by field
StoredOrDefault(d) ==
  [ apiKey |-> IF settings.present /\ settings.apiKey # ""
               THEN settings.apiKey ELSE d.apiKey,
    username |-> IF settings.present /\ settings.username # ""
                 THEN settings.username ELSE d.username ]

Incomplete(e) == e.apiKey = "" \/ e.username = ""

\* C12: when the stored settings and the defaults together do not yield both
\* credentials, the step that resolves the configuration ends the cycle with
\* {synced: 0, error: "Not configured"}: it goes to no fetch, and the store,
\* the stats cache and the cycle's record of work stay as they were.
C12_NotConfiguredFrame ==
  [][ \A c \in Cycles :
        ( /\ cyc[c].pc = "cfg"
          /\ cyc'[c] # cyc[c]
          /\ Incomplete(StoredOrDefault(cyc[c])) )
        => /\ cyc'[c].pc = "returned"
           /\ cyc'[c].result = [synced |-> 0, error |-> "Not configured"]
           /\ scrobbles' = scrobbles
           /\ delivered' = delivered
           /\ cachedStats' = cachedStats
           /\ cachedStatsTime' = cachedStatsTime
           /\ gh'[c] = IdleGh ]_vars

\* C12 witness: a cycle ended "Not configured" with only an API key stored.
C12_Witness ==
  \E c \in Cycles :
    /\ cyc[c].pc = "returned"
    /\ cyc[c].result.error = "Not configured"
    /\ settings.apiKey = "K"
    /\ settings.username = ""
    /\ options.username = ""

BackfillPages == Min(TotalPages(Recent(upN), PageSize), BackfillMaxPages)

\* C14: on a first sync whose requests succeed, the pages are requested one
\* after the other from 1 up to min(totalPages, 10) and no further, every
\* item of a fetched page that is not the now-playing entry joins the batch,
\* and every item of the batch is handed to an upsert.
C14_BackfillPages ==
  [][ \A c \in Cycles :
        /\ ( /\ cyc[c].pc = "fetch" /\ cyc[c].latestDate = 0
             /\ cyc'[c] # cyc[c] /\ cyc'[c].pc # "rejected" )
           => /\ cyc[c].page <= BackfillPages
              /\ cyc'[c].pc = "fetch"
                   => /\ cyc[c].page < BackfillPages
                      /\ cyc'[c].page = cyc[c].page + 1
              /\ cyc'[c].pc # "fetch" => cyc[c].page = BackfillPages
              /\ cyc'[c].pc \in {"fetch", "upsert"}
                   => cyc'[c].batch = cyc[c].batch
                        \o PageTracks(Recent(upN), cyc[c].page, PageSize)
              /\ cyc'[c].pc = "stats1" => upN = 0
        /\ (cyc[c].pc = "upsert" /\ cyc'[c] # cyc[c])
           => IF cyc[c].idx < Len(cyc[c].batch)
              THEN /\ cyc'[c].pc = "upsert"
                   /\ cyc'[c].idx = cyc[c].idx + 1
                   /\ cyc'[c].batch = cyc[c].batch
              ELSE cyc'[c].pc = "stats1" ]_vars

\* C14 witness: the account holds more than 10 pages, the batch holds the
\* items of exactly 10 pages, and a response carried the now-playing entry.
C14_Witness ==
  \E c \in Cycles :
    /\ cyc[c].pc = "upsert"
    /\ upN > BackfillMaxPages * PageSize
    /\ Len(cyc[c].batch) = BackfillMaxPages * PageSize
    /\ hist.marker

\* C15: in a cycle that found stored events, every page request carries the
\* stored watermark (in seconds) as its lower time bound, the pages are
\* requested 1, 2, ... and the phase ends exactly when the requested page
\* equals the totalPages of the latest response; the fetch phase ends.
C15_IncrementalFetch ==
  /\ [][ \A c \in Cycles :
          ( /\ cyc[c].pc = "fetch" /\ cyc[c].latestDate # 0
            /\ cyc'[c] # cyc[c] /\ cyc'[c].pc # "rejected" )
          => LET all == Matching(upN, LatestDate(scrobbles) \div 1000,
                                 fromInclusive)
                 total == TotalPages(all, PageSize)
                 got == cyc[c].batch
                          \o PageTracks(all, cyc[c].page, PageSize)
             IN /\ scrobbles # {}
                /\ cyc'[c].pc = "fetch"
                     => /\ cyc[c].page < total
                        /\ cyc'[c].page = cyc[c].page + 1
                        /\ cyc'[c].batch = got
                /\ cyc'[c].pc # "fetch"
                     => /\ cyc[c].page = total
                        /\ IF got = <<>> THEN cyc'[c].pc = "stats1"
                           ELSE /\ cyc'[c].pc = "upsert"
                                /\ cyc'[c].batch = got ]_vars
  /\ \A c \in Cycles :
       (cyc[c].pc = "fetch" /\ cyc[c].latestDate # 0) ~> (cyc[c].pc # "fetch")

\* C15 witness: an incremental fetch is about to request its second and last
\* page with the watermark as lower bound.
C15_Witness ==
  \E c \in Cycles :
    /\ cyc[c].pc = "fetch"
    /\ cyc[c].latestDate # 0
    /\ cyc[c].latestDate = LatestDate(scrobbles)
    /\ cyc[c].page = 2
    /\ cyc[c].page = TotalPages(Matching(upN, LatestDate(scrobbles) \div 1000,
                                         fromInclusive), PageSize)

\* C16: every stored row is the document of a completed play of the
\* account; the now-playing entry of a response is never stored.
C16_NoNowPlayingStored ==
  /\ \A r \in scrobbles : \E i \in 1..upN : r = transformScrobble(i)
  /\ \A c \in Cycles : \A k \in 1..Len(cyc[c].batch) : cyc[c].batch[k] # 0

\* C16 witness: responses of a backfill and of an incremental fetch carried
\* the now-playing entry, and both cycles stored rows.
C16_Witness ==
  /\ hist.marker
  /\ hist.markerNew
  /\ Cardinality(scrobbles) >= 2
  /\ \A c \in Cycles : cyc[c].pc = "idle"

\* the count a cycle in its upsert loop holds, or returns once the loop ended
CountOf(r) == IF r.pc = "upsert" THEN r.synced ELSE r.result.synced

\* C17: every item of a batch is attempted on its own.  An upsert rejected
\* for a duplicate key is not counted and not logged, an upsert that fails
\* otherwise is logged and not counted, and either way the loop goes on to
\* the next item, or after the last item returns the count without an
\* error; from the upsert loop on the cycle never ends by rejection.
C17_ItemsIndependent ==
  [][ \A c \in Cycles :
        /\ (cyc[c].pc = "upsert" /\ cyc'[c] # cyc[c])
           => LET doc == transformScrobble(cyc[c].batch[cyc[c].idx])
                  out == UpsertOutcome(scrobbles, doc)
                  logged == gh'[c].faulted /\ ~gh[c].faulted
              IN /\ IF cyc[c].idx < Len(cyc[c].batch)
                    THEN /\ cyc'[c].pc = "upsert"
                         /\ cyc'[c].idx = cyc[c].idx + 1
                         /\ cyc'[c].batch = cyc[c].batch
                    ELSE /\ cyc'[c].pc = "stats1"
                         /\ cyc'[c].result.error = ""
                 /\ CountOf(cyc'[c]) \in {cyc[c].synced, cyc[c].synced + 1}
                 /\ (out = "E11000" /\ scrobbles' = scrobbles)
                      => CountOf(cyc'[c]) = cyc[c].synced
                 /\ (out = "E11000" /\ ~gh[c].faulted /\ delivered' # delivered)
                      => ~gh'[c].faulted
                 /\ logged => /\ CountOf(cyc'[c]) = cyc[c].synced
                               /\ scrobbles' = scrobbles
        /\ (cyc[c].pc \in {"upsert", "stats1", "stats2"})
           => /\ cyc'[c].pc # "rejected"
              /\ cyc'[c].pc = "returned" => cyc'[c].result.error = "" ]_vars

\* C17 witness: one cycle returned a count of 1 after an upsert that failed,
\* one that inserted and one that was rejected for a duplicate key.
C17_Witness ==
  \E c \in Cycles :
    /\ cyc[c].pc = "returned"
    /\ cyc[c].result = [synced |-> 1, error |-> ""]
    /\ gh[c].faulted
    /\ gh[c].inserted = 1
    /\ Cardinality(scrobbles) = 1
    /\ Cardinality(delivered) = 2

\* C18: no step of any cycle removes a stored (artistName, trackTitle,
\* scrobbledAt) triple, and the greatest stored scrobbledAt never decreases.
C18_StoreOnlyGrows ==
  [][ /\ StoredTriples \subseteq StoredTriples'
      /\ Cardinality(scrobbles') >= Cardinality(scrobbles)
      /\ LatestDate(scrobbles') >= LatestDate(scrobbles) ]_vars

\* C18 witness: a cycle over a store holding rows ended after an upsert
\* that overwrote a stored row.
C18_Witness ==
  \E c \in Cycles :
    /\ cyc[c].pc = "returned"
    /\ cyc[c].result.synced > gh[c].inserted
    /\ ~gh[c].faulted
    /\ Cardinality(scrobbles) >= 2

\* C19: a call of the client whose key has an entry stored less than the TTL
\* ago returns that entry's data without a network request; any other call
\* issues a network request; a successful network call stores its response
\* under the key with the present time, and a failed call changes no entry.
C19_Memoization ==
  [][ (lastCall' # lastCall \/ cache' # cache)
      => LET k == lastCall'.key
             age == now - cache[k].timestamp
         IN /\ k \in Keys
            /\ (cache[k].has /\ age < DefaultCacheTtl)
                 => /\ ~lastCall'.network
                    /\ lastCall'.result = "ok"
                    /\ lastCall'.data = cache[k].data
                    /\ cache' = cache
            /\ (~cache[k].has \/ age >= DefaultCacheTtl)
                 => lastCall'.network
            /\ lastCall'.result = "error" => cache' = cache
            /\ (lastCall'.network /\ lastCall'.result = "ok")
                 => cache' = [cache EXCEPT ![k] =
                      [has |-> TRUE, data |-> lastCall'.data,
                       timestamp |-> now]] ]_vars

\* C19 witness: a call exactly one TTL after the entry of its key was stored
\* went to the network and failed, and the entry is still there.
C19_Witness ==
  /\ lastCall.network
  /\ lastCall.result = "error"
  /\ cache[lastCall.key].has
  /\ now - cache[lastCall.key].timestamp = DefaultCacheTtl
  /\ cache[lastCall.key].data # upN

\* C20: when the upstream answers 429 with a body that is not JSON, the
\* error the client raises is the typed error, and the response that
\* surfaces it to the caller marks the condition as retryable.
C20_RateLimitTransient ==
  (scrobblesResp.upstream = 429 /\ ~scrobblesResp.json)
    => /\ scrobblesResp.error = "IndiekitError"
       /\ scrobblesResp.retryable

\* Last.fm error codes the repository's notes call transient
TransientCodes == {8, 11, 16, 29}

\* C21: when the upstream answers with transport success and a body that
\* carries a transient application-level error code, the client raises the
\* typed error and the response surfaces it as a 503 retry condition.
C21_ApiErrorTyped ==
  ( /\ ResponseOk([status |-> scrobblesResp.upstream])
    /\ scrobblesResp.json
    /\ scrobblesResp.code \in TransientCodes )
    => /\ scrobblesResp.error = "IndiekitError"
       /\ scrobblesResp.status = 503
       /\ scrobblesResp.retryable
       /\ scrobblesResp.retryAfter

\* C22: an upstream response whose content type is not JSON, whatever its
\* transport status, makes the client's call fail with the typed error.
C22_NonJsonTyped ==
  (scrobblesResp.upstream # 0 /\ ~scrobblesResp.json)
    => scrobblesResp.error = "IndiekitError"

\* C23: a snapshot that was computed has its top lists from the client
\* exactly when a client was passed and all its top-entity calls succeeded,
\* and from the store aggregation otherwise; while the store serves, a
\* failure of the client does not make the computation fail.
C23_TopListsSource ==
  output.fn = "getAllStats"
    => LET apiOk == input.client /\ \A k \in TopCalls : input.api[k]
       IN /\ output.status = "ok"
               => /\ apiOk => output.source = "api"
                  /\ ~apiOk => output.source = "db"
          /\ (input.summaries /\ input.fallback) => output.status = "ok"

\* C24: every 503 answered by the stats route or the trends route because
\* there is no store handle and the slot was never populated carries the
\* Retry-After header.
C24_NotReadyRetryHint ==
  /\ (statsResp.status = 503 /\ ~statsResp.db /\ ~statsResp.slot)
       => statsResp.retryAfter
  /\ (output.fn = "apiTrends" /\ output.status = 503) => output.retryAfter

\* a field is a number when it is an optionally signed string of digits
IsNumber(s) ==
  LET body == IF s # <<>> /\ Head(s) = "-" THEN Tail(s) ELSE s
  IN body # <<>> /\ \A k \in 1..Len(body) : body[k] \in DOMAIN DigitVal

\* the number a numeric field denotes
NumberOf(s) == parseInt(s).val

\* C25: on both paged routes the limit sent upstream is at most 200, hasPrev
\* says the requested page is beyond the first, hasNext says it is before
\* the upstream's total pages (1 when that field is missing or not a
\* number), total defaults to the number of items on the page and page to
\* the requested page, and the call answers 200.
C25_Pagination ==
  output.fn \in {"scrobbles", "loved"}
    => LET upstreamPages == IF IsNumber(input.totalPages)
                            THEN NumberOf(input.totalPages) ELSE 1
       IN /\ output.status = 200
          /\ output.limitSent <= MaxLimit
          /\ (IsNumber(input.qlimit) /\ NumberOf(input.qlimit) \in 1..MaxLimit)
               => output.limitSent = NumberOf(input.qlimit)
          /\ (IsNumber(input.qpage) /\ NumberOf(input.qpage) # 0)
               => output.pageSent = NumberOf(input.qpage)
          /\ ~IsNumber(input.qpage) => output.pageSent = 1
          /\ output.hasPrev <=> output.pageSent > 1
          /\ output.hasNext <=> output.pageSent < upstreamPages
          /\ ~IsNumber(input.total) => output.total = input.items
          /\ ~IsNumber(input.page) => output.page = output.pageSent

\* C25 witness: page 2 of 3 was requested with a limit above the cap and
\* the upstream's total and page fields are missing.
C25_Witness ==
  /\ output.fn = "loved"
  /\ input.qpage = <<"2">>
  /\ input.qlimit = <<"2", "0", "1">>
  /\ input.totalPages = <<"3">>
  /\ input.total = <<>>
  /\ input.page = <<"x">>
  /\ output.hasNext /\ output.hasPrev
  /\ output.limitSent = MaxLimit

\* C26: a trends response computed for the request used the window 30 when
\* the days value is missing or not a number and otherwise that value capped
\* at 90; every trends response reports the window its series was computed
\* over, and its series is in ascending order of date.
C26_TrendsWindow ==
  (output.fn = "apiTrends" /\ output.status = 200)
    => /\ input.getter
            => output.window = IF IsNumber(input.qdays)
                               THEN Min(NumberOf(input.qdays), MaxDays)
                               ELSE DefaultDays
       /\ output.days = output.window
       /\ output.trends = getScrobbleTrends(input.plays, output.window)
       /\ \A j, k \in 1..Len(output.trends) :
            j < k => output.trends[j].date < output.trends[k].date

\* C27: the artist name is the artist object's name when it has one, else
\* its "#text" when it has one, else the artist itself when it is a string,
\* else "Unknown Artist"; without a track or an artist it is "Unknown Artist".
C27_ArtistName ==
  output.fn = "getArtistName"
    => LET a == input.artist
       IN /\ ~output.null
          /\ (~input.track \/ a.kind = "undefined")
               => output.val = "Unknown Artist"
          /\ (input.track /\ a.kind = "string") => output.val = a.str
          /\ (input.track /\ a.kind = "object")
               => /\ Truthy(a.name) => output.val = a.name[1]
                  /\ (~Truthy(a.name) /\ Truthy(a.text))
                       => output.val = a.text[1]
                  /\ (~Truthy(a.name) /\ ~Truthy(a.text))
                       => output.val = "Unknown Artist"

\* C27 witness: an artist object carrying both a name and a different
\* "#text" resolved to the name.
C27_Witness ==
  /\ output.fn = "getArtistName"
  /\ input.track
  /\ input.artist.kind = "object"
  /\ input.artist.name = <<"A">>
  /\ input.artist.text = <<"B">>
  /\ output.val = "A"

\* the variants of a list that carry a URL
Usable(image) == {k \in 1..Len(image) : image[k].text # ""}

\* C28: the cover URL is that of the first size, in the order (extralarge,
\* large, medium, small) read cyclically from the preferred size, whose
\* variant carries a URL; when no such size has one it is the URL of the
\* first variant of the list that carries one, and null when none does.
C28_CoverUrl ==
  output.fn = "getCoverUrl"
    => LET image == input.image
           n == Len(sizePriority)
           p == CHOOSE k \in 1..n :
                  sizePriority[k] = input.preferred
                    \/ (k = n /\ \A j \in 1..n :
                                   sizePriority[j] # input.preferred)
           cyclic == [i \in 1..n |-> sizePriority[((p + i - 2) % n) + 1]]
           has(z) == \E k \in Usable(image) : image[k].size = z
           known == \E j \in 1..n : sizePriority[j] = input.preferred
       IN /\ output.null <=> Usable(image) = {}
          /\ ~output.null
               => \E k \in Usable(image) : output.val = image[k].text
          /\ (known /\ \E i \in 1..n : has(cyclic[i]))
               => LET i == CHOOSE i \in 1..n :
                             has(cyclic[i]) /\ \A j \in 1..(i - 1) : ~has(cyclic[j])
                  IN \E k \in Usable(image) :
                       image[k].size = cyclic[i] /\ output.val = image[k].text
          /\ (~output.null /\ \A i \in 1..n : ~has(cyclic[i]))
               => LET k == CHOOSE k \in Usable(image) :
                             \A j \in Usable(image) : k <= j
                  IN output.val = image[k].text

\* C28 witness: with only small and large carrying a URL and extralarge
\* preferred the selector returned the large one.
C28_Witness ==
  /\ output.fn = "getCoverUrl"
  /\ input.preferred = "extralarge"
  /\ input.image = << [size |-> "small", text |-> "s.png"],
                      [size |-> "large", text |-> "l.png"] >>
  /\ output.val = "l.png"

\* age of the play of a status call, in milliseconds
AgeMs == input.time - input.uts[1] * 1000

\* C29: an entry marked as playing now is 'now-playing' whatever its
\* timestamp; without the marker an entry under 60 minutes old is
\* 'now-playing', one of 60 minutes to under 24 hours 'recently-played',
\* and one of 24 hours or more has no status.
C29_PlayingStatus ==
  output.fn = "getPlayingStatus"
    => /\ input.nowplaying = <<"true">>
            => (~output.null /\ output.val = "now-playing")
       /\ (input.nowplaying # <<"true">> /\ input.uts # <<>>)
            => /\ AgeMs < 60 * 60 * 1000
                    => (~output.null /\ output.val = "now-playing")
               /\ (AgeMs >= 60 * 60 * 1000 /\ AgeMs < 24 * 60 * 60 * 1000)
                    => (~output.null /\ output.val = "recently-played")
               /\ AgeMs >= 24 * 60 * 60 * 1000 => output.null

\* C29 witness: an unmarked entry exactly 60 minutes old was classified as
\* recently played.
C29_Witness ==
  /\ output.fn = "getPlayingStatus"
  /\ input.nowplaying = <<>>
  /\ input.uts # <<>>
  /\ AgeMs = 60 * 60 * 1000
  /\ output.val = "recently-played"

\* C30: a cycle has at most one page request outstanding, the one for its
\* current page, and the request for page n+1 is issued only in the step
\* in which the response for page n is received.
C30_SequentialPages ==
  /\ [](\A c \in Cycles :
          /\ Cardinality(cyc[c].pending) <= 1
          /\ cyc[c].pc = "fetch" => cyc[c].pending = {cyc[c].page}
          /\ cyc[c].pc # "fetch" => cyc[c].pending = {})
  /\ [][ \A c \in Cycles : \A n \in cyc'[c].pending \ cyc[c].pending :
            n > 1 => (n - 1 \in cyc[c].pending /\ n - 1 \notin cyc'[c].pending)
       ]_vars

\* C30 witness: an incremental fetch has received the response for page 1
\* and waits for page 2 alone.
C30_Witness ==
  \E c \in Cycles :
    /\ cyc[c].pc = "fetch"
    /\ cyc[c].pending = {2}
    /\ Len(cyc[c].batch) > 0
    /\ cyc[c].latestDate # 0

\* C31: the stats cache slot is either empty (no snapshot, no time) or
\* holds, whole, the snapshot of the one computation that wrote it last,
\* together with the time of that write, whatever the interleaving of
\* cycles, refreshes and reads.
C31_SlotWhole ==
  IF cachedStats.set
  THEN /\ cachedStats = hist.written
       /\ cachedStatsTime = hist.writtenAt
       /\ cachedStats.totalPlays <= Cardinality(scrobbles)
  ELSE /\ cachedStats = NoStats
       /\ cachedStatsTime = 0
       /\ hist.written = NoStats

\* C31 witness: a refresh has replaced, while a cycle is in progress and
\* after the clock has advanced, a slot that it had found empty.
C31_Witness ==
  /\ refresh.pc = "returned"
  /\ refresh.result.set
  /\ cachedStats = refresh.result
  /\ cachedStatsTime > 0
  /\ \E c \in Cycles : InProgress(c)

\* rows of the input inside a window
Window(p) == {r \in input.rows : getDateMatch(p, r)}

\* C32: every window's summary has totalPlays = the rows inside the window,
\* lovedCount <= totalPlays, uniqueArtists <= uniqueTracks <= totalPlays,
\* uniqueAlbums <= totalPlays; week <= month <= all-time in every figure;
\* all five counts are 0 for an empty window.
C32_SummaryCounts ==
  output.fn = "getSummary" =>
    LET s == output.summary
        Le(a, b) ==
          /\ a.totalPlays <= b.totalPlays
          /\ a.lovedCount <= b.lovedCount
          /\ a.uniqueTracks <= b.uniqueTracks
          /\ a.uniqueArtists <= b.uniqueArtists
          /\ a.uniqueAlbums <= b.uniqueAlbums
    IN /\ \A p \in Periods :
            /\ s[p].totalPlays = Cardinality(Window(p))
            /\ s[p].lovedCount <= s[p].totalPlays
            /\ s[p].uniqueArtists <= s[p].uniqueTracks
            /\ s[p].uniqueTracks <= s[p].totalPlays
            /\ s[p].uniqueAlbums <= s[p].totalPlays
            /\ Window(p) = {} =>
                 /\ s[p].totalPlays = 0 /\ s[p].lovedCount = 0
                 /\ s[p].uniqueTracks = 0 /\ s[p].uniqueArtists = 0
                 /\ s[p].uniqueAlbums = 0
       /\ Le(s["week"], s["month"])
       /\ Le(s["month"], s["all"])

\* C33: uniqueTracks of a window is the number of distinct
\* (artistName, trackTitle) pairs among the rows of the window.
C33_UniqueTracks ==
  output.fn = "getSummary" =>
    \A p \in Periods :
      output.summary[p].uniqueTracks =
        Cardinality({<<r.artistName, r.trackTitle>> : r \in Window(p)})

\* C34: two events have the same lastfmId exactly when their
\* (artistName, trackTitle, scrobbledAt) triples are equal, so the unique
\* index on lastfmId never rejects a document whose triple is not stored.
C34_KeyMatchesTriple ==
  /\ \A c \in Cycles : cyc[c].pc = "upsert" =>
        LET docs == {transformScrobble(cyc[c].batch[k]) :
                       k \in 1..Len(cyc[c].batch)}
        IN \A d1 \in docs, d2 \in docs \cup scrobbles :
             (d1.lastfmId = d2.lastfmId) <=> (Triple(d1) = Triple(d2))
  /\ \A c \in Cycles : cyc[c].pc = "upsert" =>
        UpsertOutcome(scrobbles, transformScrobble(cyc[c].batch[cyc[c].idx]))
          # "E11000"

C36_FetchBeforeWrite ==
  \A c \in Cycles :
    /\ cyc[c].pc = "fetch" => scrobbles = hist.startRows
    /\ gh[c].failedPage # 0 =>
         /\ scrobbles = hist.startRows
         /\ gh[c].inserted = 0
         /\ cyc[c].pc \notin {"upsert", "stats1", "stats2"}

\* C36 witness: the request of page 2 has failed after page 1 had been
\* fetched, and the cycle has ended.
C36_Witness ==
  \E c \in Cycles :
    /\ gh[c].failedPage = 2
    /\ cyc[c].pc = "rejected"
    /\ upN > 0

\* C37: once stopSync has returned, the scheduler starts no further cycle:
\* neither the periodic tick nor the initial delayed run fires.
C37_NoCycleAfterStop ==
  [][ (started /\ ~syncInterval) =>
        ~(hist.kind = "none" /\ hist'.kind \in {"initial", "tick"}) ]_vars

\* C38: a snapshot in the stats cache is never replaced by a snapshot
\* computed from an earlier state of the store than its own; the store only
\* grows, so the totalPlays of the slot never decreases.
C38_NeverOlderSnapshot ==
  [][ (cachedStats.set /\ cachedStats'.set) =>
        cachedStats'.totalPlays >= cachedStats.totalPlays ]_vars

\* C39: refreshStatsCache always returns: null without touching the slot
\* when it has no store handle, null with the slot and its time unchanged
\* when the computation fails, and the snapshot it has just written when
\* it succeeds.  A failed computation at the end of a cycle leaves the
\* slot unchanged and the cycle returns the result of its sync.
C39_RefreshNeverThrows ==
  [][ /\ (refresh.pc \in {"idle", "summaries", "top"}
            /\ refresh'.pc \notin {refresh.pc, "summaries", "top", "rendered"}) =>
          /\ refresh'.pc = "returned"
          /\ IF refresh'.result.set
             THEN /\ refresh.pc = "top"
                  /\ refresh'.result = refresh.snap
                  /\ cachedStats' = refresh'.result
                  /\ cachedStatsTime' = now
             ELSE /\ refresh'.result = NoStats
                  /\ UNCHANGED slotVars
      /\ (refresh.pc = "idle" /\ refresh'.pc = "summaries") => database
      /\ \A c \in Cycles :
           (gh[c].stats # "failed" /\ gh'[c].stats = "failed") =>
             /\ UNCHANGED slotVars
             /\ cyc'[c].pc = "returned"
             /\ cyc'[c].result = cyc[c].result
    ]_vars

\* C39 witness: a refresh has failed and returned null while the slot holds
\* the snapshot a cycle wrote in the meantime.
C39_Witness ==
  /\ refresh.pc = "returned"
  /\ ~refresh.result.set
  /\ cachedStats.set
  /\ cachedStatsTime > 0

\* C40: over every state of the settings document and every process
\* default, the sync engine's resolver, getEffectiveConfig and the manual
\* trigger resolve the same usable apiKey and username, or none of them
\* resolves usable credentials.
C40_ResolversAgree ==
  output.fn = "timer" =>
    IF Unconfigured(output.sync)
    THEN Unconfigured(output.read) /\ Unconfigured(output.manual)
    ELSE /\ output.read = output.sync
         /\ output.manual = output.sync

\* C40 witness: a readable document that sets only the apiKey over complete
\* defaults has been resolved in the three ways.
C40_Witness ==
  /\ output.fn = "timer"
  /\ input.readOk
  /\ input.doc = [present |-> TRUE, apiKey |-> "K", username |-> ""]
  /\ input.options = [apiKey |-> "K0", username |-> "U0"]
  /\ output.sync = [apiKey |-> "K", username |-> "U0"]

====
